---- MODULE Spec2Model ----
(***************************************************************************)
(* A model of the annotation matrices (row-diff transform, Multi-BRWT)     *)
(* and of the alignment chainer of metagraph.  Each subsystem has its own  *)
(* specification over the module's variables; the variables of the other   *)
(* subsystems stay at their idle values.                                   *)
(***************************************************************************)
EXTENDS Integers, Sequences, FiniteSets, TLC

VARIABLES
    \* ---- row-diff matrices (IntRowDiff / TupleRowDiff) ----
    rd_kind,      \* "int" | "tuple" | "none": which row-diff matrix is loaded
    rd_logical,   \* the un-diffed annotation the matrix was built from (row -> row content)
    anchor_,      \* IRowDiff::anchor_   (row -> BOOLEAN)
    rd_succ,      \* the graph's row-diff successor of each row (row -> row)
    diffs_,       \* IntRowDiff::diffs_ / TupleRowDiff::diffs_: the stored base matrix
    rd_call,      \* the last call: [op, row_ids, first, a, b]
    rd_result,    \* what the last call returned
    \* ---- Multi-BRWT ----
    brwt_matrix,  \* the binary matrix the tree was built from (column -> fill pattern)
    brwt_root,    \* the root BRWT node: [assignments_, nonzero_rows_, child_nodes_]
    brwt_call,    \* the last call on the tree
    brwt_result,  \* what it returned
    \* ---- call_seed_chains_both_strands ----
    sc_in,             \* the arguments: [fwd_seeds, bwd_seeds, min_exact_match, skip_column]
                       \* and pad, the coordinates read behind the DP tables
    sc_pc,             \* "idle" | "start" | "loop" | "done" | "crashed" | "thrown"
    sc_tables,         \* [both_seeds, dp_tables, seed_backtraces, starts] once chain_seeds has run
    sc_next,           \* position of the loop over starts
    both_used,         \* the rows of the DP tables already in a chain: pairs <<j, i>>
    chains,            \* the pending multiset of chains, in insertion order
    last_chain_score,
    coverage_too_low,
    sc_collected,      \* every chain ever put into `chains`
    sc_terminated,     \* terminate() has returned true
    sc_callbacks,      \* the calls of callback so far: [chain, score, after_terminate]
    \* ---- chain_anchors ----
    ca_in,             \* [chain_scores]: the chain scores after the forward passes
    ca_pc,             \* "idle" | "start" | "loop" | "done"
    ca_next,           \* position of the loop over best_chains
    ca_used,           \* the anchors already in a chain
    ca_terminated,     \* terminate() has returned true
    ca_callbacks,      \* the calls of callback so far: [chain, after_terminate]
    \* ---- chain_alignments ----
    al_in,             \* the arguments: [alignments, oracle, allow_jump, allow_label_change]
    al_pc,             \* "idle" | "start" | "forward" | "backtrack" | "done"
    anchors,           \* the sorted anchors with their DP fields
    al_i,              \* position of the forward pass
    al_j,              \* position of the loop over best_chains
    al_used,           \* the anchors already in a chain
    used_cols,         \* column -> number of chains started at it
    al_callbacks,      \* the calls of callback so far: [chain, pieces, in_jump]
    \* ---- AnnotationBuffer ----
    ab_in,             \* the graph and the matrix: [mode, row_batch_size, rows, dummy]
                       \* and coords: multi_int_ is set
    node_to_cols_,     \* node -> column set id, or nannot
    ab_keys,           \* the keys of node_to_cols_ in the order of their insertion, kept
                       \* when coordinates are: the order is only seen through label_coords_
    label_coords_,     \* the coordinate sets, one for each position of node_to_cols_
    column_sets_,      \* the interned column sets, id 0 first
    queued_paths_,     \* the paths queued since the last fetch
    ab_fetched,        \* the nodes of the paths fetched so far
    ab_rounds,         \* the number of fetches so far
    \* ---- IPathIndex ----
    pi_index,          \* the superbubble tables and the unitig graph they were built from
    pi_call,           \* the last call: [op, path_id_1, path_id_2, max_dist]
    pi_result,         \* what it returned
    \* ---- Cigar ----
    cigar_,            \* Cigar::cigar_: the entries <<operator, length>>
    cg_other,          \* a second Cigar, the argument of append(Cigar&&)
    cg_appended,       \* per Cigar and operator, the lengths appended so far
    cg_call,           \* the last call
    cg_result,         \* what is_valid returned
    \* ---- chain_seeds: the DP loop, one predecessor row at a time ----
    dp_in,             \* [pad]: the coordinates read behind the table
    dp_cur,            \* [dp_table, backtrace]
    dp_prev,           \* dp_cur before the last predecessor row was processed
    dp_i,              \* the next predecessor row
    \* ---- PathIndex::PathIndex: the parallel search for superbubbles ----
    sb_graph,              \* the unitig graph: [n, out, length]
    sb_phase,              \* "idle" | "build" | "built"
    sb_threads,            \* per iteration of the parallel loop: [pc, writes, k, improved, word]
    superbubble_starts,    \* cell 2u: source + 1, cell 2u + 1: distance
    superbubble_termini,   \* cell 2i: terminus + 1, cell 2i + 1: distance
    is_superbubble_start,
    can_reach_terminus,
    \* ---- chain_and_filter_seeds: the emission of the chains ----
    cf_in,                 \* [runs, min_exact_match, rel_score_cutoff, min_seed_length]
    cf_pc,                 \* "idle" | "start" | "loop" | "done"
    cf_tables,             \* [anchors, best_chain] after the DP
    cf_j,                  \* the next entry of best_chain
    cf_used,               \* the anchors marked used
    cf_used_cols,          \* per column, the chains started so far
    cf_chains,             \* the pending chains
    cf_last_chain_score,
    cf_coverage_too_low,
    cf_callbacks,          \* the calls of callback: [chain, score]
    \* ---- Unitigs: the unitig index of a graph ----
    ut_graph,              \* [n, edges]: nodes 1..n and the edges of graph_
    boundaries_,           \* cell 2j - 1: first node of unitig j, cell 2j: its last node
    indicator_,            \* one bit per coordinate, set where a unitig starts
    unitigs_,              \* per node: the coordinates of its row (none, or one)
    ut_call,               \* [op, unitig_id]
    ut_result              \* the ids handed to the callback, in the order of the calls

rdVars == <<rd_kind, rd_logical, anchor_, rd_succ, diffs_, rd_call, rd_result>>
brwtVars == <<brwt_matrix, brwt_root, brwt_call, brwt_result>>

scVars == <<sc_in, sc_pc, sc_tables, sc_next, both_used, chains, last_chain_score,
            coverage_too_low, sc_collected, sc_terminated, sc_callbacks>>
caVars == <<ca_in, ca_pc, ca_next, ca_used, ca_terminated, ca_callbacks>>
alVars == <<al_in, al_pc, anchors, al_i, al_j, al_used, used_cols, al_callbacks>>
chainVars == <<scVars, caVars, alVars>>

abVars == <<ab_in, node_to_cols_, ab_keys, label_coords_, column_sets_, queued_paths_,
           ab_fetched, ab_rounds>>
piVars == <<pi_index, pi_call, pi_result>>
cgVars == <<cigar_, cg_other, cg_appended, cg_call, cg_result>>
dpVars == <<dp_in, dp_cur, dp_prev, dp_i>>
sbVars == <<sb_graph, sb_phase, sb_threads, superbubble_starts, superbubble_termini,
           is_superbubble_start, can_reach_terminus>>
cfVars == <<cf_in, cf_pc, cf_tables, cf_j, cf_used, cf_used_cols, cf_chains,
           cf_last_chain_score, cf_coverage_too_low, cf_callbacks>>
utVars == <<ut_graph, boundaries_, indicator_, unitigs_, ut_call, ut_result>>
moreVars == <<sbVars, cfVars, utVars>>
otherVars == <<abVars, piVars, cgVars, dpVars, moreVars>>

vars == <<rdVars, brwtVars, chainVars, otherVars>>

(***************************************************************************)
(* Generic helpers                                                         *)
(***************************************************************************)
Min(a, b) == IF a <= b THEN a ELSE b
Max(a, b) == IF a >= b THEN a ELSE b
Abs(x) == IF x < 0 THEN -x ELSE x

NoCall == [op |-> "none"]

\* call_seed_chains_both_strands is not running
ScIdle ==
    /\ sc_in = <<>>
    /\ sc_pc = "idle"
    /\ sc_tables = <<>>
    /\ sc_next = 0
    /\ both_used = {}
    /\ chains = <<>>
    /\ last_chain_score = 0
    /\ coverage_too_low = FALSE
    /\ sc_collected = {}
    /\ sc_terminated = FALSE
    /\ sc_callbacks = <<>>

\* chain_anchors is not running
CaIdle ==
    /\ ca_in = <<>>
    /\ ca_pc = "idle"
    /\ ca_next = 0
    /\ ca_used = {}
    /\ ca_terminated = FALSE
    /\ ca_callbacks = <<>>

\* chain_alignments is not running
AlIdle ==
    /\ al_in = <<>>
    /\ al_pc = "idle"
    /\ anchors = <<>>
    /\ al_i = 0
    /\ al_j = 0
    /\ al_used = {}
    /\ used_cols = <<>>
    /\ al_callbacks = <<>>

ChainerIdle == ScIdle /\ CaIdle /\ AlIdle

\* no AnnotationBuffer is constructed
AbIdle ==
    /\ ab_in = <<>>
    /\ node_to_cols_ = <<>>
    /\ ab_keys = <<>>
    /\ label_coords_ = <<>>
    /\ column_sets_ = <<>>
    /\ queued_paths_ = <<>>
    /\ ab_fetched = {}
    /\ ab_rounds = 0

\* no path index is loaded
PiIdle ==
    /\ pi_index = <<>>
    /\ pi_call = NoCall
    /\ pi_result = <<>>

\* no Cigar is in use
CgIdle ==
    /\ cigar_ = <<>>
    /\ cg_other = <<>>
    /\ cg_appended = <<>>
    /\ cg_call = NoCall
    /\ cg_result = <<>>

\* no DP loop is running on its own
DpIdle ==
    /\ dp_in = <<>>
    /\ dp_cur = <<>>
    /\ dp_prev = <<>>
    /\ dp_i = 0

\* no path index is being built
SbIdle ==
    /\ sb_graph = <<>>
    /\ sb_phase = "idle"
    /\ sb_threads = <<>>
    /\ superbubble_starts = <<>>
    /\ superbubble_termini = <<>>
    /\ is_superbubble_start = <<>>
    /\ can_reach_terminus = <<>>

\* chain_and_filter_seeds is not running
CfIdle ==
    /\ cf_in = <<>>
    /\ cf_pc = "idle"
    /\ cf_tables = <<>>
    /\ cf_j = 0
    /\ cf_used = {}
    /\ cf_used_cols = <<>>
    /\ cf_chains = <<>>
    /\ cf_last_chain_score = 0
    /\ cf_coverage_too_low = FALSE
    /\ cf_callbacks = <<>>

\* no unitig index is loaded
UtIdle ==
    /\ ut_graph = <<>>
    /\ boundaries_ = <<>>
    /\ indicator_ = <<>>
    /\ unitigs_ = <<>>
    /\ ut_call = <<>>
    /\ ut_result = <<>>

MoreIdle == SbIdle /\ CfIdle /\ UtIdle
OthersIdle == AbIdle /\ PiIdle /\ CgIdle /\ DpIdle /\ MoreIdle

\* no Multi-BRWT is loaded
BrwtIdle ==
    /\ brwt_matrix = <<>>
    /\ brwt_root = <<>>
    /\ brwt_call = NoCall
    /\ brwt_result = <<>>

\* std::sort on a row (a vector of (column, value) pairs): insertion by column.
RECURSIVE InsertByCol(_, _)
InsertByCol(p, row) ==
    IF row = <<>> THEN <<p>>
    ELSE IF p[1] <= Head(row)[1] THEN <<p>> \o row
    ELSE <<Head(row)>> \o InsertByCol(p, Tail(row))

RECURSIVE SortRow(_)
SortRow(row) ==
    IF row = <<>> THEN <<>> ELSE InsertByCol(Head(row), SortRow(Tail(row)))

RECURSIVE ReverseSeq(_)
ReverseSeq(s) == IF s = <<>> THEN <<>> ELSE Append(ReverseSeq(Tail(s)), Head(s))

\* a sequence given element by element, with every element computed once
Built(s) == s \o <<>>

ColsOf(row) == {row[k][1] : k \in 1..Len(row)}
IsColSorted(row) == \A k \in 1..(Len(row) - 1) : row[k][1] < row[k + 1][1]

\* the value stored for column c in a row, or `none` when the row has no such column
ValueAt(row, c, none) ==
    IF c \in ColsOf(row)
        THEN (CHOOSE p \in {row[k] : k \in 1..Len(row)} : p[1] = c)[2]
        ELSE none

(***************************************************************************)
(* Row-diff: bounds, graph and base matrix                                 *)
(***************************************************************************)
NumRows == 3          \* rows of the annotation matrix
MaxBatch == 3         \* longest list of row ids passed to one query
SHIFT == 1            \* TupleRowDiff::SHIFT

RdRows == 0..(NumRows - 1)
RowBatches == UNION {[1..n -> RdRows] : n \in 1..MaxBatch}

\* AnnotatedSequenceGraph::anno_to_graph_index / graph_to_anno_index
AnnoToGraphIndex(row) == row + 1
GraphToAnnoIndex(node) == node - 1

\* boss.row_diff_successor on the node of a row: the node of the successor row
RowDiffSuccessor(node) == AnnoToGraphIndex(rd_succ[GraphToAnnoIndex(node)])

\* graph_->call_row_diff_successors(node, fork_succ_, callback): the nodes the
\* callback is called with, in order
CallRowDiffSuccessors(node) == <<RowDiffSuccessor(node)>>

\* the rows a logical integer matrix is drawn from (sorted (column, value) pairs)
IntRowChoices == { <<>>, << <<0, 1>> >>, << <<0, 2>>, <<1, 1>> >> }

\* the rows a logical coordinate matrix is drawn from (sorted (column, tuple) pairs)
TupleRowChoices == { <<>>, << <<0, {5}>> >>, << <<0, {6, 9}>>, <<1, {3}>> >> }

SymDiff(a, b) == (a \ b) \cup (b \ a)

\* the columns of a set, ascending, as a sequence
RECURSIVE SortedSeqOf(_)
SortedSeqOf(S) ==
    IF S = {} THEN <<>>
    ELSE LET m == CHOOSE x \in S : \A y \in S : x <= y
         IN <<m>> \o SortedSeqOf(S \ {m})

RECURSIVE DropNone(_, _)
DropNone(row, none) ==
    IF row = <<>> THEN <<>>
    ELSE IF Head(row)[2] = none THEN DropNone(Tail(row), none)
    ELSE <<Head(row)>> \o DropNone(Tail(row), none)

(***************************************************************************)
(* IntRowDiff                                                              *)
(***************************************************************************)
\* encode_diff / decode_diff: signed delta <-> unsigned code
encode_diff(x) == (Abs(x) - 1) * 2 + (IF x < 0 THEN 1 ELSE 0)
decode_diff(c) == IF c % 2 = 0 THEN (c \div 2) + 1 ELSE -((c + 1) \div 2)

\* IntRowDiff::decode_diffs
IntDecodeDiffs(row) == Built([k \in 1..Len(row) |-> <<row[k][1], decode_diff(row[k][2])>>])

\* The row stored for r by the row-diff transform: the absolute row at an anchor,
\* the delta to the successor's row elsewhere, zero deltas skipped, values encoded.
IntStoredRow(L, anch, succ, r) ==
    LET cols == SortedSeqOf(ColsOf(L[r]) \cup
                            (IF anch[r] THEN {} ELSE ColsOf(L[succ[r]])))
        delta(c) == ValueAt(L[r], c, 0)
                      - (IF anch[r] THEN 0 ELSE ValueAt(L[succ[r]], c, 0))
        raw == [k \in 1..Len(cols) |-> <<cols[k], delta(cols[k])>>]
        nz == DropNone(raw, 0)
    IN [k \in 1..Len(nz) |-> <<nz[k][1], encode_diff(nz[k][2])>>]

\* the merge loop of IntRowDiff::add_diff (values are 64-bit; the model's values
\* stay far inside that range, so the sum is the integer sum)
RECURSIVE IntMerge(_, _)
IntMerge(row, diff) ==
    IF row = <<>> THEN diff
    ELSE IF diff = <<>> THEN row
    ELSE IF Head(row)[1] < Head(diff)[1]
        THEN <<Head(row)>> \o IntMerge(Tail(row), diff)
    ELSE IF Head(row)[1] > Head(diff)[1]
        THEN <<Head(diff)>> \o IntMerge(row, Tail(diff))
    ELSE LET sum == Head(row)[2] + Head(diff)[2]
         IN (IF sum # 0 THEN << <<Head(row)[1], sum>> >> ELSE <<>>)
                \o IntMerge(Tail(row), Tail(diff))

\* a merge that keeps zero sums
RECURSIVE IntMergeKeepZero(_, _)
IntMergeKeepZero(row, diff) ==
    IF row = <<>> THEN diff
    ELSE IF diff = <<>> THEN row
    ELSE IF Head(row)[1] < Head(diff)[1]
        THEN <<Head(row)>> \o IntMergeKeepZero(Tail(row), diff)
    ELSE IF Head(row)[1] > Head(diff)[1]
        THEN <<Head(diff)>> \o IntMergeKeepZero(row, Tail(diff))
    ELSE << <<Head(row)[1], Head(row)[2] + Head(diff)[2]>> >>
                \o IntMergeKeepZero(Tail(row), Tail(diff))

IntAddDiffKeepZero(diff, row) == IF diff = <<>> THEN row ELSE IntMergeKeepZero(row, diff)

\* IntRowDiff::add_diff(diff, row): the new content of *row
IntAddDiff(diff, row) == IF diff = <<>> THEN row ELSE IntMerge(row, diff)

\* the two unwinding loops of get_row_values: pop path entries deeper than depth,
\* recording (node, successor) pairs
RECURSIVE IntUnwind(_, _, _)
IntUnwind(depth, path, rd_path) ==
    IF depth < Len(path)
        THEN IntUnwind(depth, SubSeq(path, 1, Len(path) - 1),
                       Append(rd_path, <<path[Len(path) - 1], path[Len(path)]>>))
        ELSE [path |-> path, rd_path |-> rd_path]

\* the while (queue.size()) loop of get_row_values for one query row.
\* s = [queue, path, rd_path, rd_ids, node_to_rd]
RECURSIVE IntWalk(_)
IntWalk(s) ==
    IF s.queue = <<>> THEN s
    ELSE
        LET depth == s.queue[Len(s.queue)][1]
            row == s.queue[Len(s.queue)][2]
            queue1 == SubSeq(s.queue, 1, Len(s.queue) - 1)
            unw == IntUnwind(depth, s.path, s.rd_path)
            is_new == row \notin DOMAIN s.node_to_rd
            idx == IF is_new THEN Len(s.rd_ids) ELSE s.node_to_rd[row]
            s1 == [s EXCEPT !.queue = queue1, !.path = Append(unw.path, idx),
                            !.rd_path = unw.rd_path]
        IN  IF ~is_new THEN IntWalk(s1)
            ELSE
                LET s2 == [s1 EXCEPT !.rd_ids = Append(s.rd_ids, row),
                                     !.node_to_rd = (row :> idx) @@ s.node_to_rd]
                    succs == CallRowDiffSuccessors(AnnoToGraphIndex(row))
                IN  IF anchor_[row] THEN IntWalk(s2)
                    ELSE IntWalk([s2 EXCEPT !.queue = queue1 \o
                            [k \in 1..Len(succs) |->
                                <<depth + 1, GraphToAnnoIndex(succs[k])>>]])

\* the first loop of get_row_values over the query rows from index i on.
\* acc = [rd_ids, node_to_rd, rd_paths_trunc]
RECURSIVE IntCollectPaths(_, _, _)
IntCollectPaths(row_ids, i, acc) ==
    IF i > Len(row_ids) THEN acc
    ELSE
        LET w == IntWalk([queue |-> << <<0, row_ids[i]>> >>, path |-> <<>>,
                          rd_path |-> <<>>, rd_ids |-> acc.rd_ids,
                          node_to_rd |-> acc.node_to_rd])
            fin == IntUnwind(1, w.path, w.rd_path)
            rd_path == Append(fin.rd_path, <<-1, fin.path[1]>>)
        IN IntCollectPaths(row_ids, i + 1,
                [rd_ids |-> w.rd_ids, node_to_rd |-> w.node_to_rd,
                 rd_paths_trunc |-> Append(acc.rd_paths_trunc, rd_path)])

\* diffs_.get_row_values(rd_ids)
BaseGetRows(rd_ids) == Built([k \in 1..Len(rd_ids) |-> diffs_[rd_ids[k]]])

\* the inner reconstruction loop over one truncated path, from pair j on
RECURSIVE IntApplyPath(_, _, _)
IntApplyPath(rd_path, j, rd_rows) ==
    IF j + 1 > Len(rd_path) THEN rd_rows
    ELSE LET node == rd_path[j][1]
             succ == rd_path[j][2]
         IN IntApplyPath(rd_path, j + 1,
                [rd_rows EXCEPT ![node + 1] = IntAddDiff(rd_rows[succ + 1], rd_rows[node + 1])])

\* the reconstruction loop over the query rows. acc = [rd_rows, rows]
RECURSIVE IntReconstruct(_, _, _)
IntReconstruct(rd_paths_trunc, i, acc) ==
    IF i > Len(rd_paths_trunc) THEN acc.rows
    ELSE LET rd_path == rd_paths_trunc[i]
             rd_rows == IntApplyPath(rd_path, 1, acc.rd_rows)
         IN IntReconstruct(rd_paths_trunc, i + 1,
                [rd_rows |-> rd_rows,
                 rows |-> Append(acc.rows, rd_rows[rd_path[Len(rd_path)][2] + 1])])

\* IntRowDiff::get_row_values(row_ids)
IntGetRowValues(row_ids) ==
    LET c == IntCollectPaths(row_ids, 1,
                [rd_ids |-> <<>>, node_to_rd |-> <<>>, rd_paths_trunc |-> <<>>])
        fetched == BaseGetRows(c.rd_ids)
        rd_rows == Built([k \in 1..Len(fetched) |-> SortRow(IntDecodeDiffs(fetched[k]))])
    IN IntReconstruct(c.rd_paths_trunc, 1, [rd_rows |-> rd_rows, rows |-> <<>>])


(***************************************************************************)
(* TupleRowDiff                                                            *)
(***************************************************************************)
ShiftRow(row, by) ==
    Built([k \in 1..Len(row) |-> <<row[k][1], {c + by : c \in row[k][2]}>>])

\* The row stored for r by the coordinate row-diff transform: the absolute row at an
\* anchor; elsewhere, per column, nothing when the row's coordinates + SHIFT are the
\* successor's, an empty tuple when only the successor has the column, and the
\* symmetric difference otherwise.
TupleStoredRow(L, anch, succ, r) ==
    IF anch[r] THEN L[r]
    ELSE
        LET mine == ShiftRow(L[r], SHIFT)
            next == L[succ[r]]
            same(c) == c \in ColsOf(mine) /\ c \in ColsOf(next)
                        /\ ValueAt(mine, c, {}) = ValueAt(next, c, {})
            cols == SortedSeqOf({c \in ColsOf(mine) \cup ColsOf(next) : ~same(c)})
            entry(c) ==
                IF c \notin ColsOf(mine) THEN <<c, {}>>
                ELSE <<c, SymDiff(ValueAt(mine, c, {}), ValueAt(next, c, {}))>>
        IN [k \in 1..Len(cols) |-> entry(cols[k])]

\* TupleRowDiff::decode_diffs: no encoding
TupleDecodeDiffs(row) == row

\* the merge loop of TupleRowDiff::add_diff
RECURSIVE TupleMerge(_, _)
TupleMerge(row, diff) ==
    IF row = <<>> THEN diff
    ELSE IF diff = <<>> THEN row
    ELSE IF Head(row)[1] < Head(diff)[1]
        THEN <<Head(row)>> \o TupleMerge(Tail(row), diff)
    ELSE IF Head(row)[1] > Head(diff)[1]
        THEN <<Head(diff)>> \o TupleMerge(row, Tail(diff))
    ELSE (IF Head(diff)[2] # {}
             THEN << <<Head(row)[1], SymDiff(Head(row)[2], Head(diff)[2])>> >>
             ELSE <<>>)
            \o TupleMerge(Tail(row), Tail(diff))

\* an add_diff that leaves the coordinates unshifted
TupleAddDiffNoShift(diff, row) == IF diff # <<>> THEN TupleMerge(row, diff) ELSE row

\* TupleRowDiff::add_diff(diff, row): the new content of *row
TupleAddDiff(diff, row) ==
    ShiftRow(IF diff # <<>> THEN TupleMerge(row, diff) ELSE row, -SHIFT)

\* the while (true) walk of one query row along its successors.
\* s = [row, rd_ids, node_to_rd, path]
RECURSIVE TupleWalk(_)
TupleWalk(s) ==
    LET is_new == s.row \notin DOMAIN s.node_to_rd
        idx == IF is_new THEN Len(s.rd_ids) ELSE s.node_to_rd[s.row]
        s1 == [s EXCEPT !.path = Append(s.path, idx)]
    IN  IF ~is_new THEN s1
        ELSE
            LET s2 == [s1 EXCEPT !.rd_ids = Append(s.rd_ids, s.row),
                                 !.node_to_rd = (s.row :> idx) @@ s.node_to_rd]
            IN  IF anchor_[s.row] THEN s2
                ELSE TupleWalk([s2 EXCEPT !.row =
                        GraphToAnnoIndex(RowDiffSuccessor(AnnoToGraphIndex(s.row)))])

\* the loop over the query rows from index i on. acc = [rd_ids, node_to_rd, rd_paths_trunc]
RECURSIVE TupleCollectPaths(_, _, _)
TupleCollectPaths(row_ids, i, acc) ==
    IF i > Len(row_ids) THEN acc
    ELSE
        LET w == TupleWalk([row |-> row_ids[i], rd_ids |-> acc.rd_ids,
                            node_to_rd |-> acc.node_to_rd, path |-> <<>>])
        IN TupleCollectPaths(row_ids, i + 1,
                [rd_ids |-> w.rd_ids, node_to_rd |-> w.node_to_rd,
                 rd_paths_trunc |-> Append(acc.rd_paths_trunc, w.path)])

\* IRowDiff::get_rd_ids(row_ids)
GetRdIds(row_ids) ==
    TupleCollectPaths(row_ids, 1,
        [rd_ids |-> <<>>, node_to_rd |-> <<>>, rd_paths_trunc |-> <<>>])

\* the propagation loop over one truncated path, from its position k down to 1.
\* st = [rd_rows, result]
RECURSIVE TuplePropagate(_, _, _)
TuplePropagate(path, k, st) ==
    IF k < 1 THEN st
    ELSE LET sorted == SortRow(st.rd_rows[path[k] + 1])
             result == TupleAddDiff(sorted, st.result)
         IN TuplePropagate(path, k - 1,
                [rd_rows |-> [st.rd_rows EXCEPT ![path[k] + 1] = result],
                 result |-> result])

\* the reconstruction of one query row from its truncated path
TupleReconstructOne(path, rd_rows) ==
    LET last == path[Len(path)] + 1
        sorted == SortRow(rd_rows[last])
    IN TuplePropagate(path, Len(path) - 1,
            [rd_rows |-> [rd_rows EXCEPT ![last] = sorted], result |-> sorted])

RECURSIVE TupleReconstruct(_, _, _)
TupleReconstruct(rd_paths_trunc, i, acc) ==
    IF i > Len(rd_paths_trunc) THEN acc.rows
    ELSE LET st == TupleReconstructOne(rd_paths_trunc[i], acc.rd_rows)
         IN TupleReconstruct(rd_paths_trunc, i + 1,
                [rd_rows |-> st.rd_rows, rows |-> Append(acc.rows, st.result)])

\* TupleRowDiff::get_row_tuples(row_ids)
TupleGetRowTuples(row_ids) ==
    LET c == GetRdIds(row_ids)
        fetched == BaseGetRows(c.rd_ids)
        rd_rows == Built([k \in 1..Len(fetched) |-> TupleDecodeDiffs(fetched[k])])
    IN TupleReconstruct(c.rd_paths_trunc, 1, [rd_rows |-> rd_rows, rows |-> <<>>])

\* the row-to-row merge of get_row_tuple_diffs: cur is rows[i - 1], temp is
\* rows[i - 2] shifted; pop says whether an empty symmetric difference is removed
RECURSIVE TupleDiffMerge(_, _, _)
TupleDiffMerge(cur, temp, pop) ==
    IF cur = <<>> THEN temp
    ELSE IF temp = <<>> THEN cur
    ELSE IF Head(cur)[1] < Head(temp)[1]
        THEN <<Head(cur)>> \o TupleDiffMerge(Tail(cur), temp, pop)
    ELSE IF Head(cur)[1] > Head(temp)[1]
        THEN <<Head(temp)>> \o TupleDiffMerge(cur, Tail(temp), pop)
    ELSE LET d == SymDiff(Head(cur)[2], Head(temp)[2])
         IN (IF pop /\ d = {} THEN <<>> ELSE << <<Head(cur)[1], d>> >>)
                \o TupleDiffMerge(Tail(cur), Tail(temp), pop)

\* the main loop of get_row_tuple_diffs from query index i (1-based) on.
\* acc = [rd_rows, rows]
RECURSIVE TupleDiffsLoop(_, _, _)
TupleDiffsLoop(rd_paths_trunc, i, acc) ==
    IF i > Len(rd_paths_trunc) THEN acc.rows
    ELSE
        LET st == TupleReconstructOne(rd_paths_trunc[i], acc.rd_rows)
            rows1 == Append(acc.rows, st.result)
            rows2 == IF i - 1 > 1
                        THEN [rows1 EXCEPT ![i - 1] =
                                TupleDiffMerge(rows1[i - 1], ShiftRow(rows1[i - 2], SHIFT), TRUE)]
                        ELSE rows1
        IN TupleDiffsLoop(rd_paths_trunc, i + 1, [rd_rows |-> st.rd_rows, rows |-> rows2])

\* TupleRowDiff::get_row_tuple_diffs(row_ids, first_tuple); first = <<>> stands for
\* no first_tuple, <<t>> for first_tuple = &t
TupleGetRowTupleDiffs(row_ids, first) ==
    IF Len(row_ids) = 0 THEN <<>>
    ELSE IF Len(row_ids) = 1
        THEN (IF first # <<>> THEN <<first[1]>> ELSE TupleGetRowTuples(row_ids))
    ELSE
        LET start == IF first # <<>>
                        THEN [rd_ids |-> <<row_ids[1]>>, node_to_rd |-> (row_ids[1] :> 0),
                              rd_paths_trunc |-> << <<0>> >>]
                        ELSE [rd_ids |-> <<>>, node_to_rd |-> <<>>, rd_paths_trunc |-> <<>>]
            c == TupleCollectPaths(row_ids, IF first # <<>> THEN 2 ELSE 1, start)
            ids == IF first # <<>> THEN Tail(c.rd_ids) ELSE c.rd_ids
            fetched == BaseGetRows(ids)
            decoded == Built([k \in 1..Len(fetched) |-> TupleDecodeDiffs(fetched[k])])
            rd_rows == IF first # <<>> THEN <<first[1]>> \o decoded ELSE decoded
            rows == TupleDiffsLoop(c.rd_paths_trunc, 1, [rd_rows |-> rd_rows, rows |-> <<>>])
            n == Len(rows)
        IN  IF n > 1
                THEN [rows EXCEPT ![n] =
                        TupleDiffMerge(rows[n], ShiftRow(rows[n - 1], SHIFT), FALSE)]
                ELSE rows


(***************************************************************************)
(* Row-diff: the state machine                                             *)
(***************************************************************************)
\* anchor placements and successors in which every successor chain ends at an anchor
\* (successors point to higher rows; the last row is an anchor)
RdGraphs ==
    {g \in [anchor : [RdRows -> BOOLEAN], succ : [RdRows -> RdRows]] :
        /\ g.anchor[NumRows - 1]
        /\ \A r \in RdRows : IF g.anchor[r] THEN g.succ[r] = r ELSE g.succ[r] > r}

\* the base matrix returns a row's pairs in its own order: ascending columns for
\* the even rows, descending for the odd ones
InBaseOrder(row, r) == IF r % 2 = 0 THEN row ELSE ReverseSeq(row)

RdIdle ==
    /\ rd_kind = "none"
    /\ rd_logical = <<>>
    /\ anchor_ = <<>>
    /\ rd_succ = <<>>
    /\ diffs_ = <<>>
    /\ rd_call = NoCall
    /\ rd_result = <<>>

RdInitOf(kinds) ==
    /\ rd_kind \in kinds
    /\ rd_logical \in [RdRows -> IF rd_kind = "int" THEN IntRowChoices ELSE TupleRowChoices]
    /\ \E g \in RdGraphs :
        /\ anchor_ = g.anchor
        /\ rd_succ = g.succ
        /\ diffs_ = [r \in RdRows |->
                        InBaseOrder(IF rd_kind = "int"
                                        THEN IntStoredRow(rd_logical, g.anchor, g.succ, r)
                                        ELSE TupleStoredRow(rd_logical, g.anchor, g.succ, r),
                                    r)]
    /\ rd_call = NoCall
    /\ rd_result = <<>>
    /\ BrwtIdle
    /\ ChainerIdle
    /\ OthersIdle

RdInit == RdInitOf({"int", "tuple"})
TupleDiffsInit == RdInitOf({"tuple"})

RdConfigUnchanged == UNCHANGED <<rd_kind, rd_logical, anchor_, rd_succ, diffs_, brwtVars, chainVars, otherVars>>

\* IntRowDiff::get_row_values(row_ids)
GetRowValues ==
    /\ rd_kind = "int"
    /\ rd_call = NoCall
    /\ \E row_ids \in RowBatches :
        /\ rd_call' = [op |-> "get_row_values", row_ids |-> row_ids]
        /\ rd_result' = IntGetRowValues(row_ids)
    /\ RdConfigUnchanged

\* TupleRowDiff::get_row_tuples(row_ids)
GetRowTuples ==
    /\ rd_kind = "tuple"
    /\ rd_call = NoCall
    /\ \E row_ids \in RowBatches :
        /\ rd_call' = [op |-> "get_row_tuples", row_ids |-> row_ids]
        /\ rd_result' = TupleGetRowTuples(row_ids)
    /\ RdConfigUnchanged

\* TupleRowDiff::get_row_tuple_diffs(row_ids, first_tuple), first_tuple either
\* absent or the coordinates of the first row
GetRowTupleDiffs ==
    /\ rd_kind = "tuple"
    /\ rd_call = NoCall
    /\ \E row_ids \in RowBatches, with_first \in BOOLEAN :
        LET first == IF with_first THEN <<rd_logical[row_ids[1]]>> ELSE <<>>
        IN  /\ rd_call' = [op |-> "get_row_tuple_diffs", row_ids |-> row_ids,
                           first |-> first]
            /\ rd_result' = TupleGetRowTupleDiffs(row_ids, first)
    /\ RdConfigUnchanged

RdNext == GetRowValues \/ GetRowTuples
SpecRowDiff == RdInit /\ [][RdNext]_vars

TupleDiffsNext == GetRowTupleDiffs
SpecTupleDiffs == TupleDiffsInit /\ [][TupleDiffsNext]_vars

(***************************************************************************)
(* Row-diff reconstruction                                                 *)
(***************************************************************************)
\* C1: every row a batch query returns is the logical (un-diffed) row of the queried
\* row id: the same columns with the same values (IntRowDiff::get_row_values) or the
\* same coordinates (TupleRowDiff::get_row_tuples), whatever the batch (shared
\* suffixes, rows on another row's path, repeats) and the anchor placement.
RowDiffReconstructs ==
    rd_call.op \in {"get_row_values", "get_row_tuples"} =>
        /\ Len(rd_result) = Len(rd_call.row_ids)
        /\ \A i \in 1..Len(rd_call.row_ids) :
                rd_result[i] = rd_logical[rd_call.row_ids[i]]

\* the successor chain of a row up to its anchor, as a set of rows
RECURSIVE RdChain(_)
RdChain(r) == IF anchor_[r] THEN {r} ELSE {r} \cup RdChain(rd_succ[r])

\* a batch with a repeated row, a row on an earlier row's path and non-anchor rows
\* whose paths share a suffix has been answered
RowDiffBatchAnswered ==
    /\ rd_call.op \in {"get_row_values", "get_row_tuples"}
    /\ Len(rd_call.row_ids) = 3
    /\ rd_call.row_ids[1] # rd_call.row_ids[2]
    /\ rd_call.row_ids[3] = rd_call.row_ids[1]
    /\ ~anchor_[rd_call.row_ids[1]] /\ ~anchor_[rd_call.row_ids[2]]
    /\ rd_call.row_ids[1] \in RdChain(rd_call.row_ids[2])
    /\ rd_result[2] # <<>> /\ rd_result[1] # rd_result[2]
    /\ diffs_[rd_call.row_ids[2]] # <<>>

(***************************************************************************)
(* Row-to-row coordinate deltas                                            *)
(***************************************************************************)
\* the delta between the absolute rows prev and cur at column c: the symmetric
\* difference of cur's coordinates and prev's coordinates + SHIFT
RowDelta(prev, cur, c) ==
    SymDiff(ValueAt(cur, c, {}), {x + SHIFT : x \in ValueAt(prev, c, {})})

\* C5: get_row_tuple_diffs on n >= 2 row ids returns n entries; entry 0 is the
\* absolute coordinate row of row 0, and every later entry i holds, per column, the
\* delta between the absolute rows of row_ids[i - 1] and row_ids[i] (a column the
\* entry does not list counts as an empty delta).
TupleDiffsAreRowDeltas ==
    (rd_call.op = "get_row_tuple_diffs" /\ Len(rd_call.row_ids) >= 2) =>
        LET ids == rd_call.row_ids
        IN  /\ Len(rd_result) = Len(ids)
            /\ rd_result[1] = rd_logical[ids[1]]
            /\ \A i \in 2..Len(ids) :
                LET prev == rd_logical[ids[i - 1]]
                    cur == rd_logical[ids[i]]
                IN \A c \in ColsOf(rd_result[i]) \cup ColsOf(prev) \cup ColsOf(cur) :
                        ValueAt(rd_result[i], c, {}) = RowDelta(prev, cur, c)

(***************************************************************************)
(* add_diff on its own                                                     *)
(***************************************************************************)
AddDiffCols == 2      \* columns of the lists given to add_diff

\* values of decoded integer diffs and rows: never zero
IntAddDiffValues == {-1, 1, 2}
\* coordinates of tuple rows and diffs: at least SHIFT
TupleAddDiffCoords == {1, 2}

\* the column-sorted lists over the columns 0..AddDiffCols-1 whose values are in V
SortedListsOver(V) ==
    UNION {{[k \in 1..Cardinality(S) |-> <<SortedSeqOf(S)[k], f[SortedSeqOf(S)[k]]>>] :
                f \in [S -> V]} : S \in SUBSET (0..(AddDiffCols - 1))}

AddDiffInit ==
    /\ rd_kind \in {"int", "tuple"}
    /\ rd_logical = <<>>
    /\ anchor_ = <<>>
    /\ rd_succ = <<>>
    /\ diffs_ = <<>>
    /\ rd_call = NoCall
    /\ rd_result = <<>>
    /\ BrwtIdle
    /\ ChainerIdle
    /\ OthersIdle

\* IntRowDiff::add_diff(diff, &row)
AddDiffInt ==
    /\ rd_kind = "int"
    /\ rd_call = NoCall
    /\ \E diff \in SortedListsOver(IntAddDiffValues), row \in SortedListsOver(IntAddDiffValues) :
        /\ rd_call' = [op |-> "add_diff", diff |-> diff, row |-> row]
        /\ rd_result' = IntAddDiff(diff, row)
    /\ RdConfigUnchanged

\* TupleRowDiff::add_diff(diff, &row): the row holds non-empty tuples, the diff may
\* hold an empty tuple for a column
AddDiffTuple ==
    /\ rd_kind = "tuple"
    /\ rd_call = NoCall
    /\ \E diff \in SortedListsOver(SUBSET TupleAddDiffCoords),
          row \in SortedListsOver((SUBSET TupleAddDiffCoords) \ {{}}) :
        /\ rd_call' = [op |-> "add_diff", diff |-> diff, row |-> row]
        /\ rd_result' = TupleAddDiff(diff, row)
    /\ RdConfigUnchanged

AddDiffNext == AddDiffInt \/ AddDiffTuple
SpecAddDiff == AddDiffInit /\ [][AddDiffNext]_vars

\* C6 as stated: the result is column-sorted with every column at most once; a column
\* of only one input is carried over; a column of both carries the sum (integer
\* rows) or the symmetric difference (tuple rows) and is dropped exactly when the sum
\* is zero or the symmetric difference is empty.
AddDiffSumsOrSymDiffs ==
    rd_call.op = "add_diff" =>
        LET row == rd_call.row
            diff == rd_call.diff
            zero == IF rd_kind = "int" THEN 0 ELSE {}
            both(c) == IF rd_kind = "int"
                          THEN ValueAt(row, c, 0) + ValueAt(diff, c, 0)
                          ELSE SymDiff(ValueAt(row, c, {}), ValueAt(diff, c, {}))
        IN  /\ IsColSorted(rd_result)
            /\ ColsOf(rd_result) \subseteq ColsOf(row) \cup ColsOf(diff)
            /\ \A c \in ColsOf(row) \ ColsOf(diff) :
                    c \in ColsOf(rd_result)
                        /\ ValueAt(rd_result, c, zero) = ValueAt(row, c, zero)
            /\ \A c \in ColsOf(diff) \ ColsOf(row) :
                    c \in ColsOf(rd_result)
                        /\ ValueAt(rd_result, c, zero) = ValueAt(diff, c, zero)
            /\ \A c \in ColsOf(row) \cap ColsOf(diff) :
                    IF both(c) = zero THEN c \notin ColsOf(rd_result)
                    ELSE c \in ColsOf(rd_result)
                            /\ ValueAt(rd_result, c, zero) = both(c)

\* C6, amended: the result is column-sorted with every column at most once and holds
\* no column outside the inputs.  Integer rows: a column of one input is carried
\* over, a column of both carries the sum and is dropped exactly when the sum is
\* zero.  Tuple rows: a column of both is dropped exactly when the diff's tuple is
\* empty and carries the symmetric difference otherwise, even an empty one; a column
\* of one input is carried over; every coordinate of the result is decreased by
\* SHIFT.
AddDiffMerges ==
    rd_call.op = "add_diff" =>
        LET row == rd_call.row
            diff == rd_call.diff
            down(t) == {x - SHIFT : x \in t}
        IN  /\ IsColSorted(rd_result)
            /\ ColsOf(rd_result) \subseteq ColsOf(row) \cup ColsOf(diff)
            /\ \A c \in ColsOf(row) \ ColsOf(diff) :
                    c \in ColsOf(rd_result)
                        /\ IF rd_kind = "int"
                              THEN ValueAt(rd_result, c, 0) = ValueAt(row, c, 0)
                              ELSE ValueAt(rd_result, c, {}) = down(ValueAt(row, c, {}))
            /\ \A c \in ColsOf(diff) \ ColsOf(row) :
                    c \in ColsOf(rd_result)
                        /\ IF rd_kind = "int"
                              THEN ValueAt(rd_result, c, 0) = ValueAt(diff, c, 0)
                              ELSE ValueAt(rd_result, c, {}) = down(ValueAt(diff, c, {}))
            /\ \A c \in ColsOf(row) \cap ColsOf(diff) :
                    IF rd_kind = "int"
                        THEN LET sum == ValueAt(row, c, 0) + ValueAt(diff, c, 0)
                             IN IF sum = 0 THEN c \notin ColsOf(rd_result)
                                ELSE c \in ColsOf(rd_result)
                                        /\ ValueAt(rd_result, c, 0) = sum
                        ELSE IF ValueAt(diff, c, {}) = {} THEN c \notin ColsOf(rd_result)
                             ELSE c \in ColsOf(rd_result)
                                    /\ ValueAt(rd_result, c, {}) =
                                        down(SymDiff(ValueAt(row, c, {}), ValueAt(diff, c, {})))

\* add_diff has merged tuple lists that share two columns: one the diff deletes with
\* an empty tuple, one whose coordinates cancel to an empty tuple that stays
AddDiffDroppedAndKept ==
    /\ rd_call.op = "add_diff"
    /\ rd_kind = "tuple"
    /\ ColsOf(rd_call.row) = {0, 1}
    /\ ColsOf(rd_call.diff) = {0, 1}
    /\ ValueAt(rd_call.diff, 0, {}) = {}
    /\ ValueAt(rd_call.diff, 1, {}) = ValueAt(rd_call.row, 1, {})
    /\ rd_result = << <<1, {}>> >>

(***************************************************************************)
(* Multi-BRWT: bit vectors, assignments, queries                           *)
(*                                                                         *)
(* A node is a record [assignments_, nonzero_rows_, child_nodes_].  A bit  *)
(* vector is a sequence of BOOLEAN, bit i of the code at position i + 1.   *)
(* assignments_ is the column partition: a sequence of groups, each the    *)
(* sequence of the node's columns given to that child.                     *)
(***************************************************************************)
WordBits == 64        \* width of the word read by get_int in slice_rows
Delim == -1           \* std::numeric_limits<Column>::max(), the end-of-row mark

\* bit_vector::rank1(i): set bits at the positions 0..i
rank1(bv, i) == Cardinality({k \in 1..(i + 1) : bv[k]})
\* bit_vector::conditional_rank1(i): rank1(i) if bit i is set, else 0
conditional_rank1(bv, i) == IF bv[i + 1] THEN rank1(bv, i) ELSE 0
num_set_bits(bv) == Cardinality({k \in 1..Len(bv) : bv[k]})
\* bit_vector::get_int(offset, 64): the word, as its bits 0..63
get_int(bv, offset) == [b \in 0..(WordBits - 1) |-> bv[offset + b + 1]]
\* sdsl::bits::cnt(word & sdsl::bits::lo_set[n]): set bits among the n lowest
CntLoSet(word, n) == Cardinality({b \in 0..(n - 1) : word[b]})

\* RangePartition::group / rank / get / num_groups / size
AssignGroup(a, col) == (CHOOSE g \in 1..Len(a) : \E k \in 1..Len(a[g]) : a[g][k] = col) - 1
AssignRank(a, col) ==
    (CHOOSE k \in 1..Len(a[AssignGroup(a, col) + 1]) : a[AssignGroup(a, col) + 1][k] = col) - 1
AssignGet(a, g, local) == a[g + 1][local + 1]
num_groups(a) == Len(a)

\* a get that forgets to move the row into the child's coordinates
RECURSIVE BrwtGetKeepRow(_, _, _)
BrwtGetKeepRow(node, row, column) ==
    IF node.child_nodes_ = <<>> THEN node.nonzero_rows_[row + 1]
    ELSE LET rank == conditional_rank1(node.nonzero_rows_, row)
         IN IF rank = 0 THEN FALSE
            ELSE LET sub == node.child_nodes_[AssignGroup(node.assignments_, column) + 1]
                 IN BrwtGetKeepRow(sub, Min(row, Len(sub.nonzero_rows_) - 1),
                                   AssignRank(node.assignments_, column))

\* BRWT::get(row, column)
RECURSIVE BrwtGet(_, _, _)
BrwtGet(node, row, column) ==
    IF node.child_nodes_ = <<>> THEN node.nonzero_rows_[row + 1]
    ELSE LET rank == conditional_rank1(node.nonzero_rows_, row)
         IN IF rank = 0 THEN FALSE
            ELSE BrwtGet(node.child_nodes_[AssignGroup(node.assignments_, column) + 1],
                         rank - 1, AssignRank(node.assignments_, column))

\* the concatenation of f[1], ..., f[n]
RECURSIVE ConcatTo(_, _)
ConcatTo(f, n) == IF n = 0 THEN <<>> ELSE ConcatTo(f, n - 1) \o f[n]

\* BRWT::get_column_ranks(i): the (column, rank) pairs of row i
RECURSIVE BrwtGetColumnRanks(_, _)
BrwtGetColumnRanks(node, i) ==
    LET rank == conditional_rank1(node.nonzero_rows_, i)
    IN  IF rank = 0 THEN <<>>
        ELSE IF node.child_nodes_ = <<>> THEN << <<0, rank>> >>
        ELSE LET from == [k \in 1..Len(node.child_nodes_) |->
                            BrwtGetColumnRanks(node.child_nodes_[k], rank - 1)]
             IN ConcatTo([k \in 1..Len(node.child_nodes_) |->
                            [n \in 1..Len(from[k]) |->
                                <<AssignGet(node.assignments_, k - 1, from[k][n][1]),
                                  from[k][n][2]>>]],
                         Len(node.child_nodes_))

\* BRWT::get_row(row): the descent of get_column_ranks, into every child, the
\* children's columns mapped back through assignments_.get
RECURSIVE BrwtGetRow(_, _)
BrwtGetRow(node, row) ==
    LET rank == conditional_rank1(node.nonzero_rows_, row)
    IN  IF rank = 0 THEN <<>>
        ELSE IF node.child_nodes_ = <<>> THEN <<0>>
        ELSE LET from == [k \in 1..Len(node.child_nodes_) |->
                            BrwtGetRow(node.child_nodes_[k], rank - 1)]
             IN ConcatTo([k \in 1..Len(node.child_nodes_) |->
                            [n \in 1..Len(from[k]) |->
                                AssignGet(node.assignments_, k - 1, from[k][n])]],
                         Len(node.child_nodes_))

\* nonzero_rows_->call_ones: the set positions from position p on, ascending
RECURSIVE call_ones(_, _)
call_ones(bv, p) ==
    IF p >= Len(bv) THEN <<>>
    ELSE (IF bv[p + 1] THEN <<p>> ELSE <<>>) \o call_ones(bv, p + 1)


\* BRWT::get_column(column); ones[k] is nonzero_rows_->select1(k)
RECURSIVE BrwtGetColumn(_, _)
BrwtGetColumn(node, column) ==
    LET num_nonzero_rows == num_set_bits(node.nonzero_rows_)
    IN  IF num_nonzero_rows = 0 THEN <<>>
        ELSE IF node.child_nodes_ = <<>> THEN call_ones(node.nonzero_rows_, 0)
        ELSE LET rows == BrwtGetColumn(
                            node.child_nodes_[AssignGroup(node.assignments_, column) + 1],
                            AssignRank(node.assignments_, column))
                 ones == call_ones(node.nonzero_rows_, 0)
             IN IF num_nonzero_rows = Len(node.nonzero_rows_) THEN rows
                ELSE [i \in 1..Len(rows) |-> ones[rows[i] + 1]]

\* a rank base that forgets the set bits before the word
WordRankBaseZero(bv, global_offset) == 0

\* rank = global_offset > 0 ? nonzero_rows_->rank1(global_offset - 1) : 0
WordRankBase(bv, global_offset) ==
    IF global_offset > 0 THEN rank1(bv, global_offset - 1) ELSE 0

\* the do-while of the word branch of slice_rows on the word read by get_int: st = [i, rank, child_row_ids, skip_row],
\* i an index into row_ids (from 0); rank = -1 stands for "not computed yet"
RECURSIVE SliceWordLoop(_, _, _, _, _)
SliceWordLoop(bv, word, row_ids, global_offset, st) ==
    LET offset == row_ids[st.i + 1] - global_offset
        hit == word[offset]
        rank == IF hit /\ st.rank = -1 THEN WordRankBase(bv, global_offset) ELSE st.rank
        st1 == [i |-> st.i + 1,
                rank |-> rank,
                child_row_ids |-> IF hit
                    THEN Append(st.child_row_ids, rank + CntLoSet(word, offset + 1) - 1)
                    ELSE st.child_row_ids,
                skip_row |-> IF hit THEN [st.skip_row EXCEPT ![st.i + 1] = FALSE]
                                    ELSE st.skip_row]
    IN  IF st1.i < Len(row_ids)
            /\ row_ids[st1.i + 1] < global_offset + WordBits
            /\ row_ids[st1.i + 1] >= global_offset
        THEN SliceWordLoop(bv, word, row_ids, global_offset, st1)
        ELSE st1

\* one iteration of the indexing loop of slice_rows at index st.i: the word branch
\* when row_ids[i + 4] lies in the 64 bits from row_ids[i] on, else one bit
SliceIndexStep(bv, row_ids, st) ==
    LET global_offset == row_ids[st.i + 1]
        rank == conditional_rank1(bv, global_offset)
    IN  IF st.i + 4 < Len(row_ids)
            /\ row_ids[st.i + 5] < global_offset + WordBits
            /\ row_ids[st.i + 5] >= global_offset
            /\ global_offset + WordBits <= Len(bv)
        THEN [SliceWordLoop(bv, get_int(bv, global_offset), row_ids, global_offset,
                            [st EXCEPT !.rank = -1])
                EXCEPT !.rank = -1]
        ELSE IF rank # 0
            THEN [st EXCEPT !.i = st.i + 1,
                            !.child_row_ids = Append(st.child_row_ids, rank - 1),
                            !.skip_row = [st.skip_row EXCEPT ![st.i + 1] = FALSE]]
            ELSE [st EXCEPT !.i = st.i + 1]

\* the indexing loop of slice_rows
RECURSIVE SliceIndex(_, _, _)
SliceIndex(bv, row_ids, st) ==
    IF st.i >= Len(row_ids) THEN st
    ELSE SliceIndex(bv, row_ids, SliceIndexStep(bv, row_ids, st))

\* while (*(++p) != delim): the elements of a child slice from position p (exclusive)
\* up to the next delimiter
RECURSIVE SliceTake(_, _)
SliceTake(slice, p) ==
    IF slice[p + 1] = Delim THEN [row |-> <<>>, p |-> p + 1]
    ELSE LET t == SliceTake(slice, p + 1)
         IN [row |-> <<slice[p + 1]>> \o t.row, p |-> t.p]

\* for (auto &p : pos): one row merged from the children j.. on
RECURSIVE SliceMergeRow(_, _, _)
SliceMergeRow(child_slices, pos, j) ==
    IF j > Len(child_slices) THEN [row |-> <<>>, pos |-> pos]
    ELSE LET t == SliceTake(child_slices[j], pos[j])
             r == SliceMergeRow(child_slices, [pos EXCEPT ![j] = t.p], j + 1)
         IN [row |-> t.row \o r.row, pos |-> r.pos]

\* the merging loop of slice_rows over the query rows i.. (from 1)
RECURSIVE SliceMerge(_, _, _, _)
SliceMerge(child_slices, skip_row, pos, i) ==
    IF i > Len(skip_row) THEN <<>>
    ELSE IF skip_row[i] THEN <<Delim>> \o SliceMerge(child_slices, skip_row, pos, i + 1)
    ELSE LET m == SliceMergeRow(child_slices, pos, 1)
         IN m.row \o <<Delim>> \o SliceMerge(child_slices, skip_row, m.pos, i + 1)

\* BRWT::slice_rows<Column>(row_ids)
RECURSIVE BrwtSliceRows(_, _)
BrwtSliceRows(node, row_ids) ==
    IF node.child_nodes_ = <<>>
        THEN ConcatTo([k \in 1..Len(row_ids) |->
                        IF node.nonzero_rows_[row_ids[k] + 1] THEN <<0, Delim>> ELSE <<Delim>>],
                      Len(row_ids))
    ELSE
        LET ix == SliceIndex(node.nonzero_rows_, row_ids,
                    [i |-> 0, rank |-> -1, child_row_ids |-> <<>>,
                     skip_row |-> [k \in 1..Len(row_ids) |-> TRUE]])
            sub == Built([j \in 1..Len(node.child_nodes_) |->
                        BrwtSliceRows(node.child_nodes_[j], ix.child_row_ids)])
            child_slices == Built([j \in 1..Len(node.child_nodes_) |->
                Built([n \in 1..Len(sub[j]) |->
                    IF sub[j][n] # Delim
                        THEN AssignGet(node.assignments_, j - 1, sub[j][n])
                        ELSE Delim])])
        IN  IF ix.child_row_ids = <<>> THEN [k \in 1..Len(row_ids) |-> Delim]
            ELSE SliceMerge(child_slices, ix.skip_row,
                            [j \in 1..Len(node.child_nodes_) |-> 0], 1)

\* std::find(row_begin, slice.end(), delim) and assign: the rows of a slice
RECURSIVE SplitSlice(_, _, _)
SplitSlice(slice, row_begin, n) ==
    IF n = 0 THEN <<>>
    ELSE LET t == SliceTake(slice, row_begin)
         IN <<t.row>> \o SplitSlice(slice, t.p, n - 1)

\* BRWT::get_rows(row_ids)
BrwtGetRows(node, row_ids) == SplitSlice(BrwtSliceRows(node, row_ids), 0, Len(row_ids))

(***************************************************************************)
(* Multi-BRWT: construction and the state machine                          *)
(***************************************************************************)
NumBrwtRows == 66     \* rows of the binary matrix (more than one 64-bit word)

\* how a column is filled: the rows that hold it
ColumnPatterns == {"all", "none", "even", "third", "most", "few"}
PatternHas(p, r) ==
    CASE p = "all" -> TRUE
      [] p = "none" -> FALSE
      [] p = "even" -> r % 2 = 0
      [] p = "third" -> r % 3 = 1
      [] p = "most" -> r # 3
      [] p = "few" -> r \in {1, 5, 64}

\* tree shapes: the column partition of every node and the shapes of its children
LeafShape == [groups |-> << <<0>> >>, kids |-> <<>>]
BrwtShapes == {
    [groups |-> << <<0>>, <<1>>, <<2>> >>, kids |-> <<LeafShape, LeafShape, LeafShape>>],
    [groups |-> << <<0, 2>>, <<1>> >>,
     kids |-> << [groups |-> << <<0>>, <<1>> >>, kids |-> <<LeafShape, LeafShape>>],
                 LeafShape >>],
    [groups |-> << <<1>>, <<0, 2>> >>,
     kids |-> << LeafShape,
                 [groups |-> << <<1>>, <<0>> >>, kids |-> <<LeafShape, LeafShape>>] >>] }

BrwtColumns == 0..2

\* The BRWT built for the matrix mat (column -> pattern) with the given shape.
\* colmap maps the node's columns to the matrix's, rows are the matrix rows the
\* parent passes down; a row's bit is set when it holds any column of the subtree.
RECURSIVE BuildNode(_, _, _, _)
BuildNode(mat, shape, colmap, rows) ==
    LET nz == [k \in 1..Len(rows) |->
                \E i \in 1..Len(colmap) : PatternHas(mat[colmap[i]], rows[k])]
        kept == SelectSeq(rows, LAMBDA r : \E i \in 1..Len(colmap) : PatternHas(mat[colmap[i]], r))
    IN [assignments_ |-> shape.groups,
        nonzero_rows_ |-> nz,
        child_nodes_ |-> [j \in 1..Len(shape.kids) |->
            BuildNode(mat, shape.kids[j],
                      [i \in 1..Len(shape.groups[j]) |-> colmap[shape.groups[j][i] + 1]],
                      kept)]]

BuildBrwt(mat, shape) ==
    BuildNode(mat, shape, <<0, 1, 2>>, [k \in 1..NumBrwtRows |-> k - 1])

\* the row id lists given to get_rows: a start row plus offsets; runs inside one
\* 64-bit word, runs leaving it, unsorted lists, repeats, short lists
BatchOffsets == { <<0>>, <<1, 0>>, <<0, 1, 2, 3, 4>>, <<0, 1, 2, 3, 63, 64, 65>>,
                  <<0, 5, 1, 1, 4, 2>>, <<2, 1, 3, 4, 5, 6>>, <<0, 64, 1, 65, 2, 3>> }
BatchStarts == {0, 1, 2, 3}
BrwtBatches ==
    {b \in {[k \in 1..Len(off) |-> start + off[k]] : off \in BatchOffsets, start \in BatchStarts} :
        \A k \in 1..Len(b) : b[k] < NumBrwtRows}

BrwtInitOf(patterns) ==
    /\ brwt_matrix \in [BrwtColumns -> patterns]
    /\ \E shape \in BrwtShapes : brwt_root = BuildBrwt(brwt_matrix, shape)
    /\ brwt_call = NoCall
    /\ brwt_result = <<>>
    /\ ChainerIdle
    /\ OthersIdle

\* BRWT::get(row, column)
BrwtGetCall ==
    /\ brwt_call = NoCall
    /\ \E row \in 0..(NumBrwtRows - 1), column \in BrwtColumns :
        /\ brwt_call' = [op |-> "get", row |-> row, column |-> column]
        /\ brwt_result' = BrwtGet(brwt_root, row, column)
    /\ UNCHANGED <<brwt_matrix, brwt_root, rdVars, chainVars, otherVars>>

\* BRWT::get_rows(row_ids)
BrwtGetRowsCall ==
    /\ brwt_call = NoCall
    /\ \E row_ids \in BrwtBatches :
        /\ brwt_call' = [op |-> "get_rows", row_ids |-> row_ids]
        /\ brwt_result' = BrwtGetRows(brwt_root, row_ids)
    /\ UNCHANGED <<brwt_matrix, brwt_root, rdVars, chainVars, otherVars>>

BrwtGetInit == BrwtInitOf(ColumnPatterns) /\ RdIdle
BrwtGetNext == BrwtGetCall
SpecBrwtGet == BrwtGetInit /\ [][BrwtGetNext]_vars

BrwtRowsInit == BrwtInitOf(ColumnPatterns) /\ RdIdle
BrwtRowsNext == BrwtGetRowsCall
SpecBrwtRows == BrwtRowsInit /\ [][BrwtRowsNext]_vars

(***************************************************************************)
(* Multi-BRWT: row/column duality and batched rows                         *)
(***************************************************************************)
SeqRange(s) == {s[k] : k \in 1..Len(s)}

\* C2: for every tree shape and column assignment and all rows r and columns c,
\* get(r, c), "get_row(r) contains c" and "get_column(c) contains r" agree.
BrwtDuality ==
    brwt_call.op = "get" =>
        /\ brwt_result = (brwt_call.column \in SeqRange(BrwtGetRow(brwt_root, brwt_call.row)))
        /\ brwt_result = (brwt_call.row \in SeqRange(BrwtGetColumn(brwt_root, brwt_call.column)))

\* get found a set bit below a nested node that filters rows
BrwtGetDescended ==
    /\ brwt_call.op = "get"
    /\ brwt_result = TRUE
    /\ brwt_call.row > 0
    /\ \E k \in 1..Len(brwt_root.child_nodes_) :
        /\ brwt_root.child_nodes_[k].child_nodes_ # <<>>
        /\ AssignGroup(brwt_root.assignments_, brwt_call.column) = k - 1
        /\ num_set_bits(brwt_root.nonzero_rows_) < NumBrwtRows
        /\ num_set_bits(brwt_root.child_nodes_[k].nonzero_rows_)
                < Len(brwt_root.child_nodes_[k].nonzero_rows_)

\* C3: get_rows returns one row per queried id, in input order, each equal to
\* get_row of that id, whatever the order, the repeats and the runs of ids inside
\* one 64-bit word of nonzero_rows_.
BrwtRowsAreGetRow ==
    brwt_call.op = "get_rows" =>
        /\ Len(brwt_result) = Len(brwt_call.row_ids)
        /\ \A i \in 1..Len(brwt_call.row_ids) :
                brwt_result[i] = BrwtGetRow(brwt_root, brwt_call.row_ids[i])

\* get_rows took the word branch at the root, from an offset with set bits before
\* it, and again in a nested child that filters rows, and returned empty rows and
\* rows of several columns
BrwtWordBranchTaken ==
    /\ brwt_call.op = "get_rows"
    /\ Len(brwt_call.row_ids) > 4
    /\ brwt_call.row_ids[1] > 0
    /\ brwt_call.row_ids[5] >= brwt_call.row_ids[1]
    /\ brwt_call.row_ids[5] < brwt_call.row_ids[1] + WordBits
    /\ brwt_call.row_ids[1] + WordBits <= NumBrwtRows
    /\ rank1(brwt_root.nonzero_rows_, brwt_call.row_ids[1] - 1) > 0
    /\ \E i, j \in 1..Len(brwt_result) : brwt_result[i] = <<>> /\ Len(brwt_result[j]) > 1
    /\ \E k \in 1..Len(brwt_root.child_nodes_) :
        LET child == brwt_root.child_nodes_[k]
            ids == SliceIndex(brwt_root.nonzero_rows_, brwt_call.row_ids,
                        [i |-> 0, rank |-> -1, child_row_ids |-> <<>>,
                         skip_row |-> [n \in 1..Len(brwt_call.row_ids) |-> TRUE]]).child_row_ids
        IN  /\ child.child_nodes_ # <<>>
            /\ num_set_bits(child.nonzero_rows_) < Len(child.nonzero_rows_)
            /\ Len(ids) > 4
            /\ ids[1] > 0
            /\ ids[5] >= ids[1] /\ ids[5] < ids[1] + WordBits
            /\ ids[1] + WordBits <= Len(child.nonzero_rows_)

(***************************************************************************)
(* Serialization                                                           *)
(*                                                                         *)
(* A stream is a sequence of tokens [t, v]: what one serialize call of a   *)
(* member writes and the matching load call reads back.                    *)
(***************************************************************************)
\* a serialize that stops after the node itself and leaves the children out
BrwtSerializeNoChildren(node) ==
    << [t |-> "assignments", v |-> node.assignments_],
       [t |-> "bit_vector", v |-> node.nonzero_rows_],
       [t |-> "number", v |-> 0] >>

\* BRWT::serialize(out): assignments_, nonzero_rows_, the number of children, the
\* children
RECURSIVE BrwtSerialize(_)
BrwtSerialize(node) ==
    << [t |-> "assignments", v |-> node.assignments_],
       [t |-> "bit_vector", v |-> node.nonzero_rows_],
       [t |-> "number", v |-> Len(node.child_nodes_)] >>
    \o ConcatTo([k \in 1..Len(node.child_nodes_) |-> BrwtSerialize(node.child_nodes_[k])],
                Len(node.child_nodes_))

\* a default-constructed BRWT
FreshBrwt == [assignments_ |-> <<>>, nonzero_rows_ |-> <<>>, child_nodes_ |-> <<>>]

\* a member's load succeeds when the stream continues with a token of its kind
NextIs(in, kind) == in # <<>> /\ Head(in).t = kind

\* a load that accepts any number of children
ChildrenCountAny(child_nodes, assignments) == TRUE

\* the value BRWT::load returns after the loop: no children, or one per group
ChildrenCountOk(child_nodes, assignments) ==
    child_nodes = <<>> \/ Len(child_nodes) = num_groups(assignments)

RECURSIVE BrwtLoad(_)
RECURSIVE BrwtLoadChildren(_, _, _)

\* the for loop of BRWT::load over the children still to read
BrwtLoadChildren(in, n, child_nodes) ==
    IF n = 0 THEN [ok |-> TRUE, child_nodes_ |-> child_nodes, in |-> in]
    ELSE LET c == BrwtLoad(in)
         IN IF ~c.ok
               THEN [ok |-> FALSE, child_nodes_ |-> Append(child_nodes, c.node), in |-> c.in]
               ELSE BrwtLoadChildren(c.in, n - 1, Append(child_nodes, c.node))

\* BRWT::load(in): [ok: the returned bool, node: the object afterwards, in: the rest]
BrwtLoad(in) ==
    IF ~NextIs(in, "assignments") THEN [ok |-> FALSE, node |-> FreshBrwt, in |-> in]
    ELSE LET n1 == [FreshBrwt EXCEPT !.assignments_ = in[1].v]
         IN IF ~NextIs(Tail(in), "bit_vector")
               THEN [ok |-> FALSE, node |-> n1, in |-> Tail(in)]
            ELSE LET n2 == [n1 EXCEPT !.nonzero_rows_ = in[2].v]
                     in2 == Tail(Tail(in))
                 IN IF ~NextIs(in2, "number") THEN [ok |-> FALSE, node |-> n2, in |-> in2]
                    ELSE LET c == BrwtLoadChildren(Tail(in2), in2[1].v, <<>>)
                             n3 == [n2 EXCEPT !.child_nodes_ = c.child_nodes_]
                         IN [ok |-> c.ok /\ ChildrenCountOk(n3.child_nodes_, n3.assignments_),
                             node |-> n3, in |-> c.in]

\* IntRowDiff::serialize(out): "v2.0", anchor_, fork_succ_ (empty here), diffs_
RdSerialize ==
    << [t |-> "version", v |-> "v2.0"],
       [t |-> "bit_vector", v |-> anchor_],
       [t |-> "bit_vector", v |-> <<>>],
       [t |-> "matrix", v |-> diffs_] >>

\* IntRowDiff::load(in): four bytes read and ignored, then anchor_, fork_succ_ and
\* diffs_, each loaded only if the one before loaded
RdLoad(in) ==
    LET in1 == IF in = <<>> THEN in ELSE Tail(in)
        ok1 == NextIs(in1, "bit_vector")
        in2 == IF ok1 THEN Tail(in1) ELSE in1
        ok2 == ok1 /\ NextIs(in2, "bit_vector")
        in3 == IF ok2 THEN Tail(in2) ELSE in2
        ok3 == ok2 /\ NextIs(in3, "matrix")
    IN [ok |-> ok3,
        anchor_ |-> IF ok1 THEN in1[1].v ELSE <<>>,
        fork_succ_ |-> IF ok2 THEN in2[1].v ELSE <<>>,
        diffs_ |-> IF ok3 THEN in3[1].v ELSE <<>>]

\* IntRowDiff::get_row(i): the columns of get_row_values(i)
RdGetRow(i) ==
    LET row == IntGetRowValues(<<i>>)[1]
    IN [k \in 1..Len(row) |-> row[k][1]]

\* IntRowDiff::get(i, j) and get_column(j): the rows i with get(i, j)
RdGet(i, j) == j \in SeqRange(RdGetRow(i))
RdGetColumn(j) == SortedSeqOf({i \in RdRows : RdGet(i, j)})
RdColumns == 0..1

\* BRWT: matrix.serialize(out), then loaded.load(in) on what was written, loaded a
\* default-constructed BRWT; brwt_result holds load's return value and loaded
BrwtSerializeLoad ==
    /\ brwt_call = NoCall
    /\ brwt_root # <<>>
    /\ brwt_result' = BrwtLoad(BrwtSerialize(brwt_root))
    /\ brwt_call' = [op |-> "serialize_load"]
    /\ UNCHANGED <<brwt_matrix, brwt_root, rdVars, chainVars, otherVars>>

\* IntRowDiff: matrix.serialize(out), then matrix.load(in) on what was written;
\* rd_call keeps what get_row and get_column returned before
RdSerializeLoad ==
    /\ rd_call = NoCall
    /\ rd_kind = "int"
    /\ anchor_' = RdLoad(RdSerialize).anchor_
    /\ diffs_' = RdLoad(RdSerialize).diffs_
    /\ rd_result' = RdLoad(RdSerialize).ok
    /\ rd_call' = [op |-> "serialize_load",
                   rows |-> [r \in RdRows |-> RdGetRow(r)],
                   columns |-> [c \in RdColumns |-> RdGetColumn(c)]]
    /\ UNCHANGED <<rd_kind, rd_logical, rd_succ, brwtVars, chainVars, otherVars>>

SerializeInit ==
    \/ BrwtInitOf({"even", "most", "few"}) /\ RdIdle
    \/ RdInitOf({"int"})
SerializeNext == BrwtSerializeLoad \/ RdSerializeLoad
SpecSerialize == SerializeInit /\ [][SerializeNext]_vars

\* C4: serialize followed by load yields an equal matrix (Multi-BRWT and IntRowDiff):
\* load succeeds, and every get_row and every get_column of the loaded matrix
\* returns what the original returns.
SerializeLoadRoundTrip ==
    /\ brwt_call.op = "serialize_load" =>
            /\ brwt_result.ok
            /\ \A r \in 0..(NumBrwtRows - 1) :
                    BrwtGetRow(brwt_result.node, r) = BrwtGetRow(brwt_root, r)
            /\ \A c \in BrwtColumns :
                    BrwtGetColumn(brwt_result.node, c) = BrwtGetColumn(brwt_root, c)
    /\ rd_call.op = "serialize_load" =>
            /\ rd_result = TRUE
            /\ \A r \in RdRows : RdGetRow(r) = rd_call.rows[r]
            /\ \A c \in RdColumns : RdGetColumn(c) = rd_call.columns[c]

\* a nested tree with non-empty columns has been written and loaded back
BrwtReloaded ==
    /\ brwt_call.op = "serialize_load"
    /\ brwt_result.ok
    /\ \E k \in 1..Len(brwt_result.node.child_nodes_) :
            brwt_result.node.child_nodes_[k].child_nodes_ # <<>>
    /\ \A c \in BrwtColumns : BrwtGetColumn(brwt_result.node, c) # <<>>

(***************************************************************************)
(* BRWT::load on streams that serialize did not write                      *)
(***************************************************************************)
MaxStoredCount == 3     \* largest number of children a stream states for a node

\* the nodes of a tree, each as the child indices leading to it from the root
RECURSIVE BrwtPaths(_)
BrwtPaths(node) ==
    {<<>>} \cup UNION { { <<k>> \o p : p \in BrwtPaths(node.child_nodes_[k]) } :
                        k \in 1..Len(node.child_nodes_) }

RECURSIVE NodeAt(_, _)
NodeAt(node, path) ==
    IF path = <<>> THEN node ELSE NodeAt(node.child_nodes_[Head(path)], Tail(path))

\* what BRWT::serialize writes when the node at path states count children
\* instead of the number it has (the children themselves are written in full)
RECURSIVE BrwtSerializeWithCount(_, _, _)
BrwtSerializeWithCount(node, path, count) ==
    IF path = <<>>
    THEN << [t |-> "assignments", v |-> node.assignments_],
            [t |-> "bit_vector", v |-> node.nonzero_rows_],
            [t |-> "number", v |-> count] >>
         \o ConcatTo([k \in 1..Len(node.child_nodes_) |-> BrwtSerialize(node.child_nodes_[k])],
                     Len(node.child_nodes_))
    ELSE << [t |-> "assignments", v |-> node.assignments_],
            [t |-> "bit_vector", v |-> node.nonzero_rows_],
            [t |-> "number", v |-> Len(node.child_nodes_)] >>
         \o ConcatTo([k \in 1..Len(node.child_nodes_) |->
                        IF k = Head(path)
                        THEN BrwtSerializeWithCount(node.child_nodes_[k], Tail(path), count)
                        ELSE BrwtSerialize(node.child_nodes_[k])],
                     Len(node.child_nodes_))

\* loaded.load(in), loaded a default-constructed BRWT, on a stream that is a
\* serialized tree with one stated number of children replaced, cut after len
\* tokens; brwt_result holds load's return value and loaded
BrwtLoadStream ==
    /\ brwt_call = NoCall
    /\ brwt_root # <<>>
    /\ \E path \in BrwtPaths(brwt_root), count \in 0..MaxStoredCount :
        LET written == BrwtSerializeWithCount(brwt_root, path, count)
        IN \E len \in 0..Len(written) :
            /\ brwt_call' = [op |-> "load", path |-> path, count |-> count,
                             groups |-> num_groups(NodeAt(brwt_root, path).assignments_),
                             children |-> Len(NodeAt(brwt_root, path).child_nodes_),
                             cut |-> Len(written) - len]
            /\ brwt_result' = BrwtLoad(SubSeq(written, 1, len))
    /\ UNCHANGED <<brwt_matrix, brwt_root, rdVars, chainVars, otherVars>>

LoadInit == BrwtInitOf({"even", "most", "few"}) /\ RdIdle
LoadNext == BrwtLoadStream
SpecLoad == LoadInit /\ [][LoadNext]_vars

\* C14: a failed load exposes no partial state: whenever load returns false the
\* object holds no children read from the failed stream.
FailedLoadKeepsNoChildren ==
    (brwt_call.op = "load" /\ ~brwt_result.ok) => brwt_result.node.child_nodes_ = <<>>

\* load has returned false while reading a child of the root after the first,
\* and the root holds the children read so far
FailedLoadKeptChildren ==
    /\ brwt_call.op = "load"
    /\ ~brwt_result.ok
    /\ brwt_call.cut > 0
    /\ Len(brwt_result.node.child_nodes_) > 1
    /\ brwt_result.node.child_nodes_[1] = brwt_root.child_nodes_[1]

\* C15: BRWT::load returns false for every stream in which some node, at any
\* depth, states a number of children that is neither 0 nor the number of groups
\* of its assignments.
RejectsBadChildrenCount ==
    (brwt_call.op = "load" /\ brwt_call.count \notin {0, brwt_call.groups}) =>
        ~brwt_result.ok

\* a whole stream whose bad number sits two levels below the root has been
\* rejected after all the stated children of that node were read
BadCountBelowRootRejected ==
    /\ brwt_call.op = "load"
    /\ brwt_call.cut = 0
    /\ Len(brwt_call.path) = 2
    /\ brwt_call.count \notin {0, brwt_call.groups}
    /\ ~brwt_result.ok
    /\ Len(brwt_result.node.child_nodes_) = 1
    /\ Len(brwt_result.node.child_nodes_[1].child_nodes_) = 1
    /\ Len(brwt_result.node.child_nodes_[1].child_nodes_[1].child_nodes_) = brwt_call.count

(***************************************************************************)
(* Seed chaining: chain_seeds and call_seed_chains_both_strands            *)
(***************************************************************************)
QuerySize == 6            \* forward.size() = reverse.size()
GraphK == 3               \* a seed of n characters has n - k + 1 nodes
nid == 0                  \* "no row": rows of a DP table are numbered from 1
ScoreMin == -2147483647 - 1   \* std::numeric_limits<score_t>::min()
SeedBandwidth == 65

\* config.min_exact_match, as a fraction
MinExactMatchChoices ==
    {[num |-> 0, den |-> 1], [num |-> 1, den |-> 2], [num |-> 3, den |-> 4], [num |-> 1, den |-> 1]}

\* Seed(): the empty seed
EmptySeed ==
    [clipping |-> 0, size |-> 0, end_clipping |-> 0, orientation |-> 0, nodes |-> <<>>,
     labels |-> {}]

\* an exact match of query[clipping, clipping + size) on strand `orientation`;
\* `labels` holds the pairs <<column, coordinate>> of label_columns and
\* label_coordinates, and <<column>> for a column of label_columns where
\* label_coordinates is empty
SeedAt(clipping, size, orientation, labels) ==
    [clipping |-> clipping, size |-> size, end_clipping |-> QuerySize - clipping - size,
     orientation |-> orientation,
     nodes |-> [n \in 1..(size - GraphK + 1) |-> 100 * orientation + clipping + n],
     labels |-> labels]

\* Seed::expand(next)
Expand(seed, next) ==
    [seed EXCEPT !.size = @ + Len(next),
                 !.end_clipping = @ - Len(next),
                 !.nodes = @ \o next]

\* operator> on TableElem
TableElemGreater(a, b) ==
    \/ a.label > b.label
    \/ a.label = b.label /\ a.coordinate > b.coordinate
    \/ a.label = b.label /\ a.coordinate = b.coordinate /\ a.seed_clipping > b.seed_clipping
    \/ /\ a.label = b.label /\ a.coordinate = b.coordinate
       /\ a.seed_clipping = b.seed_clipping /\ a.seed_end > b.seed_end

\* the places row e can take in the sorted table t: before the first row it is
\* greater than, and before or behind every row that is neither greater nor
\* less than it
RECURSIVE InsertTableElem(_, _)
InsertTableElem(e, t) ==
    IF t = <<>> THEN {<<e>>}
    ELSE IF TableElemGreater(e, Head(t)) THEN {<<e>> \o t}
    ELSE IF TableElemGreater(Head(t), e)
            THEN {<<Head(t)>> \o r : r \in InsertTableElem(e, Tail(t))}
    ELSE {<<e>> \o t} \cup {<<Head(t)>> \o r : r \in InsertTableElem(e, Tail(t))}

\* std::sort(dp_table.begin(), dp_table.end(), std::greater<TableElem>()): the
\* tables it can leave. std::sort is not stable and operator> does not look at
\* chain_score and current_seed_index, so rows with the same label, coordinate,
\* clipping and end come out in any order
RECURSIVE SortTable(_)
SortTable(t) ==
    IF t = <<>> THEN {<<>>}
    ELSE UNION {InsertTableElem(Head(t), sorted) : sorted \in SortTable(Tail(t))}

\* a.label_coordinates.empty(): the seed has no column, or columns without
\* coordinates
NoCoordinates(seed) == \A p \in seed.labels : Len(p) = 1

\* the rows of seed i: one per (column, coordinate)
RECURSIVE SeedRows(_, _)
SeedRows(seed, i) ==
    IF seed.labels = {} THEN <<>>
    ELSE LET p == CHOOSE q \in seed.labels : TRUE
         IN (IF Len(p) = 1 THEN <<>>
             ELSE <<[label |-> p[1], coordinate |-> p[2], seed_clipping |-> seed.clipping,
                     seed_end |-> seed.clipping + seed.size, chain_score |-> seed.size,
                     current_seed_index |-> i]>>)
            \o SeedRows([seed EXCEPT !.labels = @ \ {p}], i)

RECURSIVE ExplodeSeeds(_, _)
ExplodeSeeds(seeds, i) ==
    IF i > Len(seeds) THEN <<>> ELSE SeedRows(seeds[i], i) \o ExplodeSeeds(seeds, i + 1)

\* the gap penalty of the vectorized loop for min_seed_length = 3: the sum
\* coord_diff * sl + 0.5 * log2(coord_diff + 1), sl = 0.03, converted to an
\* integer by rounding to nearest; 0 when coord_diff = 0
GapPenaltyTable == <<1, 1, 1, 1, 1, 2, 2, 2>>
GapPenalty(coord_diff) == IF coord_diff = 0 THEN 0 ELSE GapPenaltyTable[coord_diff]

\* the last row with the label of row i (rows are sorted by label)
RECURSIVE LabelEnd(_, _)
LabelEnd(dp_table, i) ==
    IF i < Len(dp_table) /\ dp_table[i + 1].label = dp_table[i].label
        THEN LabelEnd(dp_table, i + 1) ELSE i

\* The rows behind the table.  dp_table.reserve(size + 9) leaves memory that is
\* never written before the vectorized loop gathers coordinates from it; pad holds
\* the coordinates found there.  Rows further out than PadRows never decide a row
\* of the table.
PadRows == 3
PadCoordinates == {0, 1000000000}
PadChoices == [1..PadRows -> PadCoordinates]
UniformPads == {pad \in PadChoices : \A p \in 1..PadRows : pad[p] = pad[1]}

CoordinateAt(dp_table, r, pad) ==
    IF r <= Len(dp_table) THEN dp_table[r].coordinate
    ELSE pad[Min(r - Len(dp_table), PadRows)]

\* coord_cutoff > coord for the row r seen from the predecessor row i
CoordCut(dp_table, i, r, pad) ==
    dp_table[i].coordinate - QuerySize > CoordinateAt(dp_table, r, pad)

\* a blend that keeps the masks in the order of the rows

\* simde_mm256_blend_epi32(coord_1_mask, coord_2_mask, 0b10101010): the 32-bit
\* lane k of coord_neg_mask holds the 64-bit comparison of row j + LaneOfMask[k + 1]
LaneOfMask == <<0, 4, 1, 5, 2, 6, 3, 7>>

\* the candidate score of row j with predecessor row i, before the comparison
\* with the score row j has; cvtps_epi32 has made the penalty an integer
CandidateScore(dp_table, i, j) ==
    LET prev == dp_table[i]
        cur == dp_table[j]
        dist == prev.seed_clipping - cur.seed_clipping
        coord_dist == prev.coordinate - cur.coordinate
        match == Min(Min(dist, coord_dist), cur.seed_end - cur.seed_clipping)
    IN prev.chain_score + match - GapPenalty(Abs(coord_dist - dist))

\* dist_mask without dmax_mask
DistMaskAnyDistance(dp_table, i, j) ==
    dp_table[i].seed_clipping - dp_table[j].seed_clipping > 0

\* dist > 0 && std::max(dist, coord_dist) < query_size
DistMask(dp_table, i, j) ==
    LET dist == dp_table[i].seed_clipping - dp_table[j].seed_clipping
        coord_dist == dp_table[i].coordinate - dp_table[j].coordinate
    IN dist > 0 /\ Max(dist, coord_dist) < QuerySize

\* the lanes k..7 of the block of eight rows starting at row j
RECURSIVE ChainSeedsLanes(_, _, _, _, _, _)
ChainSeedsLanes(t, i, j, k, last, pad) ==
    IF k > 7 THEN t
    ELSE LET r == j + k
             coord_neg == r > last \/ CoordCut(t.dp_table, i, j + LaneOfMask[k + 1], pad)
         IN IF ~coord_neg /\ DistMask(t.dp_table, i, r)
                    /\ CandidateScore(t.dp_table, i, r) >= t.dp_table[r].chain_score
               THEN ChainSeedsLanes(
                        [dp_table |-> [t.dp_table EXCEPT
                                        ![r].chain_score = CandidateScore(t.dp_table, i, r)],
                         backtrace |-> [t.backtrace EXCEPT ![r] = i]],
                        i, j, k + 1, last, pad)
               ELSE ChainSeedsLanes(t, i, j, k + 1, last, pad)

\* the vectorized loop over the candidates of the predecessor row i: blocks of
\* eight rows from row j on, until a block has a lane behind it_end or below the
\* coordinate cutoff
RECURSIVE ChainSeedsRow(_, _, _, _, _)
ChainSeedsRow(t, i, j, last, pad) ==
    LET after == ChainSeedsLanes(t, i, j, 0, last, pad)
    IN IF \E k \in 0..7 : j + k > last \/ CoordCut(t.dp_table, i, j + k, pad)
          THEN after
          ELSE ChainSeedsRow(after, i, j + 8, last, pad)

\* it_end - 1 as a row of the table
ItEnd(dp_table, i) == Min(SeedBandwidth, LabelEnd(dp_table, i) - (i - 1)) + i - 1

RECURSIVE ChainSeedsLoop(_, _, _)
ChainSeedsLoop(t, i, pad) ==
    IF i > Len(t.dp_table) THEN t
    ELSE IF t.dp_table[i].seed_clipping = 0 THEN ChainSeedsLoop(t, i + 1, pad)
    ELSE ChainSeedsLoop(ChainSeedsRow(t, i, i + 1, ItEnd(t.dp_table, i), pad), i + 1, pad)

\* chain_seeds(config, query, seeds), the outcomes it can have: the
\* std::runtime_error of line 350 when a seed has no coordinates, the seeds
\* then left as they were; otherwise the seeds reversed, the DP table and the
\* backtrace, for each table the sort can leave
ChainSeeds(seeds, pad) ==
    IF \E i \in 1..Len(seeds) : NoCoordinates(seeds[i])
    THEN {[thrown |-> TRUE, seeds |-> seeds, dp_table |-> <<>>, backtrace |-> <<>>]}
    ELSE LET reversed == ReverseSeq(seeds)
         IN { LET t == ChainSeedsLoop([dp_table |-> dp_table,
                                       backtrace |-> [i \in 1..Len(dp_table) |-> nid]],
                                      1, pad)
              IN [thrown |-> FALSE,
                  seeds |-> [i \in 1..Len(reversed) |-> [reversed[i] EXCEPT !.labels = {}]],
                  dp_table |-> t.dp_table,
                  backtrace |-> t.backtrace] :
              dp_table \in SortTable(ExplodeSeeds(reversed, 1)) }

\* std::sort(starts.begin(), starts.end(), std::greater<>()) on (score, j, -i)
StartGreater(a, b) ==
    \/ a.chain_score > b.chain_score
    \/ a.chain_score = b.chain_score /\ a.j > b.j
    \/ a.chain_score = b.chain_score /\ a.j = b.j /\ a.i < b.i

RECURSIVE InsertStart(_, _)
InsertStart(e, t) ==
    IF t = <<>> THEN <<e>>
    ELSE IF StartGreater(e, Head(t)) THEN <<e>> \o t
    ELSE <<Head(t)>> \o InsertStart(e, Tail(t))

\* the starts left in the order of the tables
SortStartsKeep(t) == t

RECURSIVE SortStarts(_)
SortStarts(t) == IF t = <<>> THEN <<>> ELSE InsertStart(Head(t), SortStarts(Tail(t)))

StartsOf(dp_table, j) ==
    [i \in 1..Len(dp_table) |-> [chain_score |-> dp_table[i].chain_score, j |-> j, i |-> i]]

\* lines 247-261: follow the backtrace from row i of strand j, adding seeds to
\* the chain until a skipped column
RECURSIVE BacktrackSeeds(_, _, _)
BacktrackSeeds(j, i, acc) ==
    IF i = nid THEN acc
    ELSE LET e == sc_tables.dp_tables[j][i]
         IN IF e.label \in sc_in.skip_column THEN acc
            ELSE BacktrackSeeds(j, sc_tables.seed_backtraces[j][i],
                    [used |-> acc.used \cup {<<j, i>>},
                     chain_seeds |-> Append(acc.chain_seeds,
                        [first |-> [sc_tables.both_seeds[j][e.current_seed_index]
                                        EXCEPT !.labels = {<<e.label, e.coordinate>>}],
                         second |-> e.coordinate,
                         coord |-> e.coordinate])])

\* lines 267-293: merge overlapping seeds, from the last pair to the first; the
\* sizes are unsigned, so a negative dist never passes the test on the nodes
RECURSIVE CleanChain(_, _)
CleanChain(cs, i) ==
    IF i <= 1 THEN cs
    ELSE LET cur_seed == cs[i].first
             prev_seed == cs[i - 1].first
             prev_end == prev_seed.clipping + prev_seed.size
             coord_dist == cs[i].coord + cur_seed.size - cs[i - 1].coord - prev_seed.size
             dist == cur_seed.clipping + cur_seed.size - prev_end
         IN IF /\ prev_end > cur_seed.clipping
               /\ dist = coord_dist
               /\ dist >= 0
               /\ Len(cur_seed.nodes) >= dist
                THEN CleanChain(
                        [cs EXCEPT ![i - 1].first =
                                        Expand(prev_seed,
                                               SubSeq(cur_seed.nodes,
                                                      Len(cur_seed.nodes) - dist + 1,
                                                      Len(cur_seed.nodes))),
                                   ![i].first = EmptySeed],
                        i - 1)
                ELSE CleanChain(cs, i - 1)

\* lines 295-309: drop the emptied seeds and turn the coordinates into distances
EraseEmpty(cs) == SelectSeq(cs, LAMBDA a : a.first.nodes # <<>>)

CoordsToDists(cs) ==
    [i \in 1..Len(cs) |->
        [first |-> cs[i].first,
         second |-> IF i = 1 THEN 0 ELSE cs[i].second - cs[i - 1].second]]

\* what std::equal_to<Chain> compares: the alignments without their labels, and
\* the distances
ChainKey(chain) ==
    [i \in 1..Len(chain) |->
        <<chain[i].first.orientation, chain[i].first.clipping, chain[i].first.size,
          chain[i].first.nodes, chain[i].second>>]

\* get_num_char_matches_in_seeds(chain.begin(), chain.end())
get_num_char_matches_in_seeds(chain) ==
    Cardinality(UNION {chain[i].first.clipping
                            ..(chain[i].first.clipping + chain[i].first.size - 1) :
                       i \in {k \in 1..Len(chain) : chain[k].first.nodes # <<>>}})

\* a gate that lets every chain through
CoverageBelowNever(chain, min_exact_match) == FALSE

\* exact_match_fraction < config.min_exact_match
CoverageBelow(chain, min_exact_match) ==
    get_num_char_matches_in_seeds(chain) * min_exact_match.den
        < min_exact_match.num * QuerySize

\* lines 175-213: a run of equal chains is one chain with the union of their
\* coordinate sets
RECURSIVE MergeChains(_, _)
MergeChains(last_chain, rest) ==
    IF rest = <<>> THEN last_chain
    ELSE MergeChains([i \in 1..Len(last_chain) |->
                        [last_chain[i] EXCEPT !.first.labels = @ \cup Head(rest)[i].first.labels]],
                     Tail(rest))

\* the orders in which an unordered_multiset can be iterated: equal elements
\* are adjacent, the order of the groups is unspecified
RECURSIVE Orders(_)
Orders(keys) ==
    IF keys = {} THEN {<<>>}
    ELSE UNION {{<<k>> \o o : o \in Orders(keys \ {k})} : k \in keys}

GroupOrders(chs) == Orders({ChainKey(chs[i]) : i \in 1..Len(chs)})

\* the loop of flush_chains over the groups, in the order `order`
RECURSIVE FlushGroups(_, _, _)
FlushGroups(order, terminated, acc) ==
    IF order = <<>> THEN [acc EXCEPT !.chains = <<>>]
    ELSE LET group == SelectSeq(chains, LAMBDA c : ChainKey(c) = Head(order))
             last_chain == MergeChains(Head(group), Tail(group))
         IN IF CoverageBelow(last_chain, sc_in.min_exact_match)
                THEN [acc EXCEPT !.coverage_too_low = TRUE]
                ELSE FlushGroups(Tail(order), terminated,
                        [acc EXCEPT !.callbacks =
                            Append(@, [chain |-> last_chain, score |-> last_chain_score,
                                       after_terminate |-> terminated])])

\* what reading *chains.begin() of an empty multiset can give
GarbageChains == {<<>>}

\* flush_chains(), `terminated` telling whether terminate() has returned true.
\* On an empty multiset the assertion fails in a debug build; without it the
\* begin iterator is dereferenced and the outcome is whatever the build does:
\* `outcome` is an abort or a chain of GarbageChains that goes through the gate.
flush_chains(order, outcome, terminated) ==
    LET acc == [callbacks |-> sc_callbacks, coverage_too_low |-> coverage_too_low,
                chains |-> chains, crashed |-> FALSE]
    IN IF coverage_too_low THEN acc
       ELSE IF chains = <<>>
            THEN IF outcome.abort THEN [acc EXCEPT !.crashed = TRUE]
                 ELSE IF CoverageBelow(outcome.chain, sc_in.min_exact_match)
                        THEN [acc EXCEPT !.coverage_too_low = TRUE]
                        ELSE [acc EXCEPT !.callbacks =
                                Append(@, [chain |-> outcome.chain, score |-> last_chain_score,
                                           after_terminate |-> terminated])]
       ELSE FlushGroups(order, terminated, acc)

FlushOutcomes ==
    {[abort |-> TRUE, chain |-> <<>>]} \cup {[abort |-> FALSE, chain |-> g] : g \in GarbageChains}

\* the seeds call_seed_chains_both_strands is given: on the forward strand
\* three 3-mers at clippings 0, 2 and 3, each without a label, labelled with
\* column 0, column 1 or both at the coordinate of a colinear match, with
\* column 0 one base off, or with column 0 and no coordinates; on the reverse
\* strand no seed, one 3-mer, or the same 3-mer twice
FwdClippings == <<0, 2, 3>>
SeedLabelChoices(clipping) ==
    {{}, {<<0, 10 + clipping>>}, {<<1, 10 + clipping>>},
     {<<0, 10 + clipping>>, <<1, 10 + clipping>>}, {<<0, 11 + clipping>>}, {<<0>>}}

FwdSeedChoices ==
    {[k \in 1..Len(FwdClippings) |-> SeedAt(FwdClippings[k], GraphK, 0, f[k])] :
        f \in {g \in [1..Len(FwdClippings) ->
                        UNION {SeedLabelChoices(FwdClippings[k]) : k \in 1..Len(FwdClippings)}] :
                    \A k \in 1..Len(FwdClippings) : g[k] \in SeedLabelChoices(FwdClippings[k])}}

BwdSeedChoices ==
    {<<>>, <<SeedAt(1, GraphK, 1, {<<0, 20>>})>>,
     <<SeedAt(1, GraphK, 1, {<<0, 20>>}), SeedAt(1, GraphK, 1, {<<0, 20>>})>>}

SkipColumnChoices == {{}, {1}}

ScInit ==
    /\ sc_in \in [fwd_seeds : FwdSeedChoices, bwd_seeds : BwdSeedChoices,
                  min_exact_match : MinExactMatchChoices, skip_column : SkipColumnChoices,
                  pad : UniformPads]
    /\ sc_pc = "start"
    /\ sc_tables = <<>>
    /\ sc_next = 0
    /\ both_used = {}
    /\ chains = <<>>
    /\ last_chain_score = ScoreMin
    /\ coverage_too_low = FALSE
    /\ sc_collected = {}
    /\ sc_terminated = FALSE
    /\ sc_callbacks = <<>>
    /\ CaIdle
    /\ AlIdle
    /\ RdIdle
    /\ BrwtIdle
    /\ OthersIdle

\* lines 75-143: drop the seeds without nodes or label columns, probe
\* terminate(), chain the seeds of each strand and sort the starts; an
\* exception of chain_seeds leaves the function
ScEnter ==
    /\ sc_pc = "start"
    /\ \E t \in BOOLEAN :
        LET fwd_seeds == SelectSeq(sc_in.fwd_seeds, LAMBDA a : a.nodes # <<>> /\ a.labels # {})
            bwd_seeds == SelectSeq(sc_in.bwd_seeds, LAMBDA a : a.nodes # <<>> /\ a.labels # {})
        IN \E fwd \in ChainSeeds(fwd_seeds, sc_in.pad), bwd \in ChainSeeds(bwd_seeds, sc_in.pad) :
           LET starts == SortStarts(Built(StartsOf(fwd.dp_table, 0) \o StartsOf(bwd.dp_table, 1)))
           IN
           /\ sc_terminated' = t
           /\ IF t \/ (fwd_seeds = <<>> /\ bwd_seeds = <<>>)
                THEN /\ sc_pc' = "done"
                     /\ UNCHANGED <<sc_tables, sc_next>>
                ELSE IF fwd.thrown \/ bwd.thrown
                THEN /\ sc_pc' = "thrown"
                     /\ UNCHANGED <<sc_tables, sc_next>>
                ELSE IF starts = <<>>
                THEN /\ sc_pc' = "done"
                     /\ UNCHANGED <<sc_tables, sc_next>>
                ELSE /\ sc_pc' = "loop"
                     /\ sc_next' = 1
                     /\ sc_tables' =
                            [both_seeds |-> [j \in {0, 1} |-> IF j = 0 THEN fwd.seeds ELSE bwd.seeds],
                             dp_tables |-> [j \in {0, 1} |-> IF j = 0 THEN fwd.dp_table
                                                                        ELSE bwd.dp_table],
                             seed_backtraces |-> [j \in {0, 1} |-> IF j = 0 THEN fwd.backtrace
                                                                              ELSE bwd.backtrace],
                             starts |-> starts]
    /\ UNCHANGED <<sc_in, both_used, chains, last_chain_score, coverage_too_low,
                   sc_collected, sc_callbacks, caVars, alVars, rdVars, brwtVars, otherVars>>

\* one iteration of the loop over starts (lines 231-334), terminate() having
\* returned false
ScIterate ==
    /\ sc_pc = "loop"
    /\ sc_next <= Len(sc_tables.starts)
    /\ ~coverage_too_low
    /\ LET start == sc_tables.starts[sc_next]
           b == BacktrackSeeds(start.j, start.i, [used |-> both_used, chain_seeds |-> <<>>])
           chain == Built(CoordsToDists(EraseEmpty(CleanChain(b.chain_seeds, Len(b.chain_seeds)))))
       IN IF <<start.j, start.i>> \in both_used
            THEN UNCHANGED <<both_used, chains, last_chain_score, coverage_too_low,
                             sc_collected, sc_callbacks>>
          ELSE /\ both_used' = b.used
               /\ IF b.chain_seeds = <<>> \/ chain[1].first.labels = {}
                    THEN UNCHANGED <<chains, last_chain_score, coverage_too_low,
                                     sc_collected, sc_callbacks>>
                  ELSE /\ sc_collected' = sc_collected \cup {chain}
                       /\ IF chains = <<>>
                            THEN /\ chains' = <<chain>>
                                 /\ last_chain_score' = start.chain_score
                                 /\ UNCHANGED <<coverage_too_low, sc_callbacks>>
                          ELSE IF start.chain_score = last_chain_score
                            THEN /\ chains' = Append(chains, chain)
                                 /\ UNCHANGED <<last_chain_score, coverage_too_low, sc_callbacks>>
                          ELSE \E order \in GroupOrders(chains) :
                                LET f == flush_chains(order, [abort |-> TRUE, chain |-> <<>>], FALSE)
                                IN /\ sc_callbacks' = f.callbacks
                                   /\ coverage_too_low' = f.coverage_too_low
                                   /\ chains' = Append(f.chains, chain)
                                   /\ last_chain_score' = start.chain_score
    /\ sc_next' = sc_next + 1
    /\ UNCHANGED <<sc_in, sc_pc, sc_tables, sc_terminated, caVars, alVars, rdVars, brwtVars, otherVars>>

\* line 336: the flush after the loop, and the return
FinalFlush(terminated) ==
    /\ \E order \in GroupOrders(chains), outcome \in FlushOutcomes :
        LET f == flush_chains(order, outcome, terminated)
        IN /\ sc_callbacks' = f.callbacks
           /\ coverage_too_low' = f.coverage_too_low
           /\ chains' = f.chains
           /\ sc_pc' = IF f.crashed THEN "crashed" ELSE "done"
    /\ sc_terminated' = terminated
    /\ UNCHANGED <<sc_in, sc_tables, sc_next, both_used, last_chain_score, sc_collected,
                   caVars, alVars, rdVars, brwtVars, otherVars>>

\* line 232: the loop is left because coverage_too_low is set or, else,
\* because terminate() returns true
ScBreak ==
    /\ sc_pc = "loop"
    /\ sc_next <= Len(sc_tables.starts)
    /\ FinalFlush(~coverage_too_low)

\* the loop has gone through all starts
ScExhausted ==
    /\ sc_pc = "loop"
    /\ sc_next > Len(sc_tables.starts)
    /\ FinalFlush(FALSE)

ScNext == ScEnter \/ ScIterate \/ ScBreak \/ ScExhausted

SpecSeedChains == ScInit /\ [][ScNext]_vars

\* chain_seeds has thrown: a seed with a label column and no coordinates came
\* through the filter of lines 75-80, and no callback was made
ChainSeedsThrown ==
    /\ sc_pc = "thrown"
    /\ sc_callbacks = <<>>
    /\ \E i \in 1..Len(sc_in.fwd_seeds) :
            sc_in.fwd_seeds[i].labels # {} /\ NoCoordinates(sc_in.fwd_seeds[i])

\* two rows of the reverse strand's table that compare equal, in the order of
\* their seeds and in the other order
EqualRowsInSeedOrder ==
    /\ sc_tables # <<>>
    /\ Len(sc_tables.dp_tables[1]) = 2
    /\ sc_tables.dp_tables[1][1].current_seed_index < sc_tables.dp_tables[1][2].current_seed_index
EqualRowsAgainstSeedOrder ==
    /\ sc_tables # <<>>
    /\ Len(sc_tables.dp_tables[1]) = 2
    /\ sc_tables.dp_tables[1][1].current_seed_index > sc_tables.dp_tables[1][2].current_seed_index

(***************************************************************************)
(* chain_anchors: backtracking and emission                                *)
(***************************************************************************)
NumAnchors == 3           \* anchors_end - anchors_begin
MaxExtensions == 2        \* alignments the extender hands back for one chain
anchors_end == 0          \* "no predecessor": anchors are numbered from 1
AnchorScores == {0, 2, 3}

\* chain_scores after the forward passes (lines 60-132): anchor i keeps its
\* own score and no predecessor, or the connector linked it to an anchor
\* before it
ChainScoresChoices ==
    {<<>>} \cup
    {f \in [1..NumAnchors -> [score : AnchorScores, last : anchors_end..(NumAnchors - 1)]] :
        \A i \in 1..NumAnchors : f[i].last < i}

\* lines 135-144: the anchors with a positive chain score, best first
RECURSIVE InsertBest(_, _)
InsertBest(e, t) ==
    IF t = <<>> THEN <<e>>
    ELSE IF e[1] < Head(t)[1] \/ (e[1] = Head(t)[1] /\ e[2] < Head(t)[2]) THEN <<e>> \o t
    ELSE <<Head(t)>> \o InsertBest(e, Tail(t))

RECURSIVE BestChainsFrom(_, _)
BestChainsFrom(chain_scores, i) ==
    IF i > Len(chain_scores) THEN <<>>
    ELSE IF chain_scores[i].score > 0
        THEN InsertBest(<<-chain_scores[i].score, i>>, BestChainsFrom(chain_scores, i + 1))
        ELSE BestChainsFrom(chain_scores, i + 1)

best_chains == BestChainsFrom(ca_in.chain_scores, 1)

\* lines 154-163: the chain that ends at anchor i, last anchor first
RECURSIVE AnchorChain(_)
AnchorChain(i) ==
    IF ca_in.chain_scores[i].last = anchors_end THEN <<i>>
    ELSE <<i>> \o AnchorChain(ca_in.chain_scores[i].last)

CaInit ==
    /\ ca_in \in [chain_scores : ChainScoresChoices]
    /\ ca_pc = "start"
    /\ ca_next = 0
    /\ ca_used = {}
    /\ ca_terminated = FALSE
    /\ ca_callbacks = <<>>
    /\ ScIdle
    /\ AlIdle
    /\ RdIdle
    /\ BrwtIdle
    /\ OthersIdle

\* line 48
CaEnter ==
    /\ ca_pc = "start"
    /\ \E t \in BOOLEAN :
        /\ ca_terminated' = t
        /\ IF t \/ ca_in.chain_scores = <<>>
            THEN ca_pc' = "done" /\ UNCHANGED ca_next
            ELSE ca_pc' = "loop" /\ ca_next' = 1
    /\ UNCHANGED <<ca_in, ca_used, ca_callbacks, scVars, alVars, rdVars, brwtVars, otherVars>>

\* the callbacks of one chain (lines 186-191): `emitted` alignments are passed
\* on before terminate() returns true, or all of them
EmitAlignments(chain, emitted) ==
    ca_callbacks \o [k \in 1..emitted |->
                        [chain |-> chain, alignment |-> k, after_terminate |-> ca_terminated]]

\* one iteration of the loop over best_chains (lines 147-192), terminate()
\* having returned false at line 148
CaIterate ==
    /\ ca_pc = "loop"
    /\ ca_next <= Len(best_chains)
    /\ LET i == best_chains[ca_next][2]
           chain == AnchorChain(i)
       IN \E start_backtrack \in BOOLEAN,
             alns \in IF Len(chain) = 1 THEN {1} ELSE 0..MaxExtensions :
            IF i \in ca_used \/ ~start_backtrack
                THEN /\ ca_next' = ca_next + 1
                     /\ UNCHANGED <<ca_pc, ca_used, ca_terminated, ca_callbacks>>
                ELSE \E emitted \in 0..alns :
                        /\ ca_used' = ca_used \cup {chain[k] : k \in 1..Len(chain)}
                        /\ ca_callbacks' = EmitAlignments(chain, emitted)
                        /\ ca_terminated' = (emitted < alns)
                        /\ ca_pc' = IF emitted < alns THEN "done" ELSE "loop"
                        /\ ca_next' = IF emitted < alns THEN ca_next ELSE ca_next + 1
    /\ UNCHANGED <<ca_in, scVars, alVars, rdVars, brwtVars, otherVars>>

\* line 148: terminate() returns true
CaStop ==
    /\ ca_pc = "loop"
    /\ ca_next <= Len(best_chains)
    /\ ca_terminated' = TRUE
    /\ ca_pc' = "done"
    /\ UNCHANGED <<ca_in, ca_next, ca_used, ca_callbacks, scVars, alVars, rdVars, brwtVars, otherVars>>

\* the loop has gone through best_chains
CaReturn ==
    /\ ca_pc = "loop"
    /\ ca_next > Len(best_chains)
    /\ ca_pc' = "done"
    /\ UNCHANGED <<ca_in, ca_next, ca_used, ca_terminated, ca_callbacks, scVars, alVars, rdVars, brwtVars, otherVars>>

CaNext == CaEnter \/ CaIterate \/ CaStop \/ CaReturn

\* both chainers with a terminate() probe
TerminateInit == ScInit \/ CaInit
TerminateNext == ScNext \/ CaNext
SpecTerminate == TerminateInit /\ [][TerminateNext]_vars

\* C8: once terminate() has returned true no chain callback is invoked, in
\* chain_anchors and in call_seed_chains_both_strands: every call of a
\* callback was made before the probe returned true.
NoCallbackAfterTerminate ==
    /\ \A k \in 1..Len(sc_callbacks) : ~sc_callbacks[k].after_terminate
    /\ \A k \in 1..Len(ca_callbacks) : ~ca_callbacks[k].after_terminate

\* the probe returned true during the loop and a chain collected before that
\* was passed to the callback by the flush at line 336 afterwards
PendingChainFlushedAfterTerminate ==
    /\ sc_pc = "done"
    /\ sc_terminated
    /\ \E k \in 1..Len(sc_callbacks) :
        /\ sc_callbacks[k].after_terminate
        /\ sc_callbacks[k].chain \in sc_collected

\* the fraction of the query covered by the matches of a chain is at least
\* min_exact_match
EnoughCoverage(chain) ==
    get_num_char_matches_in_seeds(chain) * sc_in.min_exact_match.den
        >= sc_in.min_exact_match.num * QuerySize

\* the chain, or the merge of it with the chains of the same seeds, was passed
\* to the callback
PassedToCallback(chain) ==
    \E k \in 1..Len(sc_callbacks) : ChainKey(sc_callbacks[k].chain) = ChainKey(chain)

\* C9 as stated: when call_seed_chains_both_strands has returned, a chain it
\* built was passed to the callback if and only if its matches cover at least
\* min_exact_match of the query.
CoverageGateIff ==
    sc_pc = "done" =>
        \A chain \in sc_collected : PassedToCallback(chain) <=> EnoughCoverage(chain)

\* C9: a chain is passed to the callback only if its matches cover at least
\* min_exact_match of the query; the first flushed chain below the threshold
\* sets coverage_too_low, after which nothing more is passed; when no flushed
\* chain fell below it and terminate() never returned true, every chain built
\* has been passed by the time the function returns.
CoverageGate ==
    /\ \A k \in 1..Len(sc_callbacks) : EnoughCoverage(sc_callbacks[k].chain)
    /\ (sc_pc = "done" /\ ~coverage_too_low /\ ~sc_terminated) =>
            \A chain \in sc_collected : PassedToCallback(chain)
    /\ coverage_too_low =>
            \E chain \in sc_collected \cup GarbageChains : ~EnoughCoverage(chain)

\* the function has returned, a flushed chain tripped the gate, and a chain
\* with enough coverage was left behind
GateTrippedChainLeftBehind ==
    /\ sc_pc = "done"
    /\ coverage_too_low
    /\ \E chain \in sc_collected : EnoughCoverage(chain) /\ ~PassedToCallback(chain)

\* ======================================================================
\* chain_alignments (aligner_chainer.cpp 1106-1554)
\*
\* The alignments given to the chainer are local alignments of one query:
\* each covers the query characters [begin, end) with matches only, has one
\* label column, and lies on one of two references; its i-th node is the
\* k-mer of its reference at query position begin + i, so that two
\* alignments on the same reference share the node at a common position.
\* Every alignment ends before the end of the query (end clipping > 0), as
\* an alignment without clipping is skipped at line 1145.
\* ======================================================================
AlQuerySize == 9          \* characters of the query
AlignmentLength == 4      \* query characters covered by one alignment
min_seed_length == 3      \* config.min_seed_length, here equal to k
ninf == ScoreMin + 100    \* DBGAlignerConfig::ninf

\* the scoring part of the configuration
AlConfig ==
    [ match |-> 2,
      node_insertion_penalty |-> -1,
      gap_opening_penalty |-> -1,
      gap_extension_penalty |-> -1 ]

\* alignment.get_nodes()[node_i], node_i counted from 0
AlNode(aln, node_i) == 100 * aln.ref + aln.begin + node_i + 1

\* alignment.get_nodes().size()
AlNumNodes(aln) == (aln.end - aln.begin) - GraphK + 1

\* per_char_scores_prefix[index][p]: the score lost by trimming p characters
\* off the prefix (lines 1161-1175); every character is a match
per_char_scores_prefix(aln, p) == AlConfig.match * p

\* per_char_scores_suffix[index][p]: the score of the first p characters
\* (lines 1176-1191)
per_char_scores_suffix(aln, p) == AlConfig.match * p

\* add_anchor (lines 1194-1224)
NewAnchor(alns, index, begin, end, node_i) ==
    [ end |-> end,
      col |-> alns[index].col,
      begin |-> begin,
      index |-> index,
      aln_index |-> node_i,
      score |-> per_char_scores_suffix(alns[index], end - alns[index].begin)
                    - per_char_scores_prefix(alns[index], begin - alns[index].begin),
      last |-> nid,
      last_dist |-> 0,
      mem_length |-> end - begin,
      label_change_score |-> ninf,
      score_with_jump |-> ninf,
      last_with_jump |-> nid,
      last_dist_with_jump |-> 0,
      mem_length_with_jump |-> end - begin,
      label_change_score_jump |-> ninf ]

\* The anchors of one alignment (lines 1231-1275): the suffix is trimmed one
\* character at a time, which removes the last node each time, and an anchor
\* of min_seed_length characters ends at each node; with min_seed_length = k
\* the loop of line 1264 adds nothing.
AnchorsOfAlignment(alns, index) ==
    LET n == AlNumNodes(alns[index])
    IN [ t \in 1..n |->
            LET node_i == n - t
                end == alns[index].begin + GraphK + node_i
            IN NewAnchor(alns, index, end - min_seed_length, end, node_i) ]

RECURSIVE AllAnchors(_, _)
AllAnchors(alns, index) ==
    IF index > Len(alns) THEN <<>>
    ELSE AnchorsOfAlignment(alns, index) \o AllAnchors(alns, index + 1)

\* the comparator of std::sort at line 1286
AnchorLess(a, b) ==
    \/ a.end < b.end
    \/ a.end = b.end /\ a.col < b.col
    \/ a.end = b.end /\ a.col = b.col /\ a.begin < b.begin

RECURSIVE InsertAnchor(_, _)
InsertAnchor(sorted, a) ==
    IF sorted = <<>> THEN <<a>>
    ELSE IF AnchorLess(a, sorted[Len(sorted)])
         THEN Append(InsertAnchor(SubSeq(sorted, 1, Len(sorted) - 1), a),
                     sorted[Len(sorted)])
         ELSE Append(sorted, a)

\* std::sort on fewer than 16 elements is an insertion sort
RECURSIVE SortAnchors(_, _)
SortAnchors(as, n) ==
    IF n = 0 THEN <<>> ELSE InsertAnchor(SortAnchors(as, n - 1), as[n])

\* start_points (lines 1289-1297), numbered from 1
start_points(as, i) ==
    CHOOSE s \in 1..i :
        /\ \A m \in s..i : as[m].end = as[i].end
        /\ (s = 1 \/ as[s - 1].end # as[i].end)

\* the commit of a jump (lines 1354-1359, 1414-1419, 1442-1447)
CommitJump(a) ==
    IF a.mem_length_with_jump >= GraphK /\ a.score_with_jump > a.score
    THEN [a EXCEPT !.score = a.score_with_jump,
                   !.last = a.last_with_jump,
                   !.mem_length = a.mem_length_with_jump,
                   !.label_change_score = a.label_change_score_jump]
    ELSE a

\* connect within an alignment (lines 1315-1362)
ConnectWithin(in, as, i, j) ==
    LET a_i == as[i]
        a_j == as[j]
        aln == in.alignments[a_j.index]
        base_updated_score == per_char_scores_suffix(aln, a_j.end - aln.begin)
                                - per_char_scores_prefix(aln, a_i.end - aln.begin)
        coord_dist == a_j.aln_index - a_i.aln_index
        plain == a_i.score + base_updated_score > a_j.score
        a1 == IF plain
              THEN [a_j EXCEPT !.score = a_i.score + base_updated_score,
                               !.last = i,
                               !.mem_length = a_i.mem_length + coord_dist,
                               !.label_change_score = 0]
              ELSE a_j
        jump == a_i.score_with_jump + base_updated_score > a1.score_with_jump
        a2 == IF jump
              THEN [a1 EXCEPT !.score_with_jump = a_i.score_with_jump + base_updated_score,
                              !.last_with_jump = i,
                              !.mem_length_with_jump = a_i.mem_length_with_jump + coord_dist,
                              !.label_change_score_jump = 0]
              ELSE a1
    IN [a |-> CommitJump(a2), updated |-> plain \/ jump]

\* every label change is free: the oracle is not consulted
LabelChangeScoreFree(in, a, b) == 0

\* labeled_aligner->get_label_change_score(a, b); with no labeled aligner
\* the score stays 0
LabelChangeScore(in, a, b) ==
    IF in.labeled_aligner THEN in.oracle[a][b] ELSE 0

\* connect two anchors of different alignments (lines 1364-1448)
ConnectAcross(in, as, i, j) ==
    LET a_i == as[i]
        a_j == as[j]
        aln == in.alignments[a_j.index]
        local_label_change_score == LabelChangeScore(in, a_i.col, a_j.col)
        same == [a |-> a_j, updated |-> FALSE]
    IN IF (~in.allow_label_change \/ ~in.labeled_aligner) /\ a_i.col # a_j.col
       THEN same
       ELSE IF in.labeled_aligner /\ local_label_change_score = ninf
       THEN same
       ELSE IF in.allow_jump /\ a_j.begin >= a_i.end
       THEN \* disjoint
            LET gap == a_j.begin - a_i.end
                gap_cost == AlConfig.node_insertion_penalty + AlConfig.gap_opening_penalty
                            + (IF gap > 0
                               THEN AlConfig.gap_opening_penalty
                                        + (gap - 1) * AlConfig.gap_extension_penalty
                               ELSE 0)
                base_updated_score ==
                    local_label_change_score + gap_cost
                        + per_char_scores_suffix(aln, a_j.end - aln.begin)
                        - per_char_scores_prefix(aln, a_j.begin - aln.begin)
                jump == a_i.score + base_updated_score > a_j.score_with_jump
            IN [a |-> IF jump
                      THEN [a_j EXCEPT !.score_with_jump = a_i.score + base_updated_score,
                                       !.last_with_jump = i,
                                       !.mem_length_with_jump = a_j.end - a_j.begin,
                                       !.label_change_score_jump = local_label_change_score]
                      ELSE a_j,
                updated |-> jump]
       ELSE IF a_j.end # a_i.end
       THEN same
       ELSE IF /\ a_i.aln_index >= 0
               /\ a_j.aln_index >= 0
               /\ AlNode(in.alignments[a_i.index], a_i.aln_index)
                    = AlNode(in.alignments[a_j.index], a_j.aln_index)
       THEN \* perfect overlap
            LET plain == a_i.score + local_label_change_score > a_j.score
                a1 == IF plain
                      THEN [a_j EXCEPT !.score = a_i.score + local_label_change_score,
                                       !.last = i,
                                       !.mem_length = IF a_j.mem_length >= a_i.mem_length
                                                      THEN a_j.mem_length
                                                      ELSE a_i.mem_length,
                                       !.label_change_score = local_label_change_score]
                      ELSE a_j
            IN [a |-> CommitJump(a1), updated |-> plain]
       ELSE IF in.allow_jump
       THEN \* a jump between two nodes that end at the same character
            LET base_updated_score ==
                    local_label_change_score + AlConfig.node_insertion_penalty
                jump == /\ a_i.mem_length >= GraphK
                        /\ a_i.score + base_updated_score > a_j.score_with_jump
                a1 == IF jump
                      THEN [a_j EXCEPT !.score_with_jump = a_i.score + base_updated_score,
                                       !.last_with_jump = i,
                                       !.mem_length_with_jump = a_j.end - a_j.begin,
                                       !.label_change_score_jump = local_label_change_score]
                      ELSE a_j
            IN [a |-> CommitJump(a1), updated |-> jump]
       ELSE same

\* the inner loop of the forward pass for one i (lines 1303-1449), from j on
RECURSIVE ForwardInner(_, _, _, _, _, _)
ForwardInner(in, as, i, j, lowest_updated, num_considered) ==
    IF j > Len(as) THEN [anchors |-> as, lowest_updated |-> lowest_updated]
    ELSE IF i = j THEN ForwardInner(in, as, i, j + 1, lowest_updated, num_considered)
    ELSE LET considered == IF i < j THEN num_considered + 1 ELSE num_considered
         IN IF i < j /\ considered > SeedBandwidth
            THEN [anchors |-> as, lowest_updated |-> lowest_updated]
            ELSE LET r == IF as[j].index = as[i].index
                          THEN ConnectWithin(in, as, i, j)
                          ELSE ConnectAcross(in, as, i, j)
                 IN ForwardInner(in, [as EXCEPT ![j] = r.a], i, j + 1,
                                 IF r.updated /\ j < lowest_updated
                                 THEN j ELSE lowest_updated,
                                 considered)

\* best_chains (lines 1455-1463): (-score, anchor) pairs in increasing order
BestChainLess(a, b) == a[1] < b[1] \/ (a[1] = b[1] /\ a[2] < b[2])

RECURSIVE InsertBestChain(_, _)
InsertBestChain(sorted, e) ==
    IF sorted = <<>> THEN <<e>>
    ELSE IF BestChainLess(e, sorted[Len(sorted)])
         THEN Append(InsertBestChain(SubSeq(sorted, 1, Len(sorted) - 1), e),
                     sorted[Len(sorted)])
         ELSE Append(sorted, e)

RECURSIVE AlBestChainsFrom(_, _)
AlBestChainsFrom(as, n) ==
    IF n = 0 THEN <<>>
    ELSE IF as[n].mem_length >= GraphK
         THEN InsertBestChain(AlBestChainsFrom(as, n - 1), <<-as[n].score, n>>)
         ELSE AlBestChainsFrom(as, n - 1)

al_best_chains(as) == AlBestChainsFrom(as, Len(as))

\* the walk along the back pointers (lines 1478-1490); chain is in walk
\* order, pairs of (anchor, alignment)
RECURSIVE WalkChain(_, _, _, _)
WalkChain(as, k, in_jump, chain) ==
    IF k = nid THEN [chain |-> chain, in_jump |-> in_jump]
    ELSE LET a_k == as[k]
             entered == in_jump \/ (a_k.score = a_k.score_with_jump
                                        /\ a_k.last_with_jump = a_k.last)
             next == IF entered THEN a_k.last_with_jump ELSE a_k.last
             left == entered /\ a_k.mem_length_with_jump # a_k.end - a_k.begin
         IN WalkChain(as, next, left, Append(chain, <<k, a_k.index>>))

Reversed(s) == [p \in 1..Len(s) |-> s[Len(s) + 1 - p]]

\* partial_alignments (lines 1500-1525): one piece for each run of anchors
\* of one alignment, trimmed to [a_last.begin, a_i.end)
RECURSIVE PartialAlignments(_, _, _, _)
PartialAlignments(as, chain, last_chain_i, i) ==
    LET a_last == as[chain[last_chain_i][1]]
        piece(a_i) == [ index |-> chain[last_chain_i][2],
                        begin |-> a_last.begin,
                        end |-> a_i.end,
                        label_change_score |-> a_last.label_change_score ]
    IN IF i > Len(chain) THEN << piece(as[chain[Len(chain)][1]]) >>
       ELSE IF chain[i][2] # chain[last_chain_i][2]
            THEN << piece(as[chain[i - 1][1]]) >> \o PartialAlignments(as, chain, i, i + 1)
            ELSE PartialAlignments(as, chain, last_chain_i, i + 1)

\* no chain is dropped after the walk
DropsChainNever(chain, pieces) == FALSE

\* the two tests that drop a walked chain (lines 1494 and 1527): it has one
\* anchor, its anchors lie on one alignment, or it gives one piece
DropsChain(chain, pieces) ==
    LET used_alns == { chain[p][2] : p \in 1..Len(chain) }
    IN \/ Len(chain) = 1
       \/ Cardinality(used_alns) = 1
       \/ Len(pieces) <= 1

\* the label column choices, and the label-change oracles: all changes cost
\* one; the change from column 0 to column 2 is forbidden; all are forbidden;
\* the change from 0 to 2 is forbidden and the change from 1 to 2 is free
\* (the labels of column set 1 include those of column set 2)
AlColumns == 0..2

AlOracleChoices ==
    { [a \in AlColumns |-> [b \in AlColumns |-> IF a = b THEN 0 ELSE -1]],
      [a \in AlColumns |-> [b \in AlColumns |->
            IF a = b THEN 0 ELSE IF a = 0 /\ b = 2 THEN ninf ELSE -1]],
      [a \in AlColumns |-> [b \in AlColumns |-> IF a = b THEN 0 ELSE ninf]],
      [a \in AlColumns |-> [b \in AlColumns |->
            IF a = b \/ (a = 1 /\ b = 2) THEN 0
            ELSE IF a = 0 /\ b = 2 THEN ninf ELSE -1]] }

AlignmentAt(begin, col, ref) ==
    [begin |-> begin, end |-> begin + AlignmentLength, col |-> col, ref |-> ref]

\* two or three alignments; the first starts the query
AlignmentsChoices ==
    LET second == { AlignmentAt(b, c, r) : b \in {1, 2, 4}, c \in {0, 1}, r \in {0, 1} }
        third == { AlignmentAt(b, c, r) : b \in {2, 4}, c \in AlColumns, r \in {0, 1} }
    IN { << AlignmentAt(0, 0, 0), s >> : s \in second }
        \cup { << AlignmentAt(0, 0, 0), s, t >> : s \in second, t \in third }

AlInit ==
    /\ al_in \in [ alignments : AlignmentsChoices,
                   oracle : AlOracleChoices,
                   labeled_aligner : {TRUE},
                   allow_jump : BOOLEAN,
                   allow_label_change : BOOLEAN,
                   num_alternative_paths : {1, 2} ]
    /\ al_pc = "start"
    /\ anchors = <<>>
    /\ al_i = 0
    /\ al_j = 0
    /\ al_used = {}
    /\ used_cols = [c \in AlColumns |-> 0]
    /\ al_callbacks = <<>>
    /\ ScIdle
    /\ CaIdle
    /\ RdIdle
    /\ BrwtIdle
    /\ OthersIdle

AlFrame == UNCHANGED <<scVars, caVars, rdVars, brwtVars, otherVars>>

\* lines 1109-1297: the early returns, the anchors and their order
AlEnter ==
    /\ al_pc = "start"
    /\ LET early == Len(al_in.alignments) <= 1
                        \/ (~al_in.allow_jump /\ ~al_in.allow_label_change)
           as == IF early THEN <<>>
                 ELSE LET all == AllAnchors(al_in.alignments, 1)
                      IN SortAnchors(all, Len(all))
       IN /\ anchors' = as
          /\ al_pc' = IF Len(as) <= 1 THEN "done" ELSE "forward"
          /\ al_i' = IF Len(as) <= 1 THEN 0 ELSE 1
    /\ UNCHANGED <<al_in, al_j, al_used, used_cols, al_callbacks>>
    /\ AlFrame

\* the index goes one anchor back after every iteration but the first
ForwardIndexStepsBack(as, lowest_updated, i) == IF i > 1 THEN i - 1 ELSE i + 1

\* lines 1452-1453 and the ++i of line 1301: the next i, rewound to the start
\* point of the lowest anchor updated when that anchor lies before i
NextForwardIndex(as, lowest_updated, i) ==
    IF lowest_updated < i THEN start_points(as, lowest_updated) ELSE i + 1

\* one iteration of the forward pass (lines 1301-1453)
AlForward ==
    /\ al_pc = "forward"
    /\ al_i < Len(anchors)
    /\ LET r == ForwardInner(al_in, anchors, al_i, start_points(anchors, al_i),
                             Len(anchors) + 1, 0)
       IN /\ anchors' = r.anchors
          /\ al_i' = NextForwardIndex(anchors, r.lowest_updated, al_i)
    /\ UNCHANGED <<al_in, al_pc, al_j, al_used, used_cols, al_callbacks>>
    /\ AlFrame

\* the forward pass is over (line 1301); best_chains is sorted
AlForwardDone ==
    /\ al_pc = "forward"
    /\ al_i >= Len(anchors)
    /\ al_pc' = "backtrack"
    /\ al_j' = 1
    /\ UNCHANGED <<al_in, anchors, al_i, al_used, used_cols, al_callbacks>>
    /\ AlFrame

\* the test of the used bit is left out
StartIsUsedNever(used, k) == FALSE

\* if (used[k]) continue (line 1469)
StartIsUsed(used, k) == k \in used

\* one iteration of the loop over best_chains (lines 1467-1553)
AlBacktrack ==
    /\ al_pc = "backtrack"
    /\ al_j <= Len(al_best_chains(anchors))
    /\ LET k == al_best_chains(anchors)[al_j][2]
           col == anchors[k].col
           w == WalkChain(anchors, k, FALSE, <<>>)
           chain == Reversed(w.chain)
           pieces == PartialAlignments(anchors, chain, 1, 2)
       IN IF StartIsUsed(al_used, k)
          THEN UNCHANGED <<al_used, used_cols, al_callbacks>>
          ELSE /\ used_cols' = [used_cols EXCEPT ![col] = @ + 1]
               /\ IF used_cols[col] + 1 > al_in.num_alternative_paths
                  THEN UNCHANGED <<al_used, al_callbacks>>
                  ELSE /\ al_used' = al_used \cup { chain[p][1] : p \in 1..Len(chain) }
                       /\ IF DropsChain(chain, pieces)
                          THEN UNCHANGED al_callbacks
                          ELSE al_callbacks' = Append(al_callbacks,
                                    [ chain |-> chain,
                                      pieces |-> pieces,
                                      in_jump |-> w.in_jump ])
    /\ al_j' = al_j + 1
    /\ UNCHANGED <<al_in, al_pc, anchors, al_i>>
    /\ AlFrame

AlReturn ==
    /\ al_pc = "backtrack"
    /\ al_j > Len(al_best_chains(anchors))
    /\ al_pc' = "done"
    /\ UNCHANGED <<al_in, anchors, al_i, al_j, al_used, used_cols, al_callbacks>>
    /\ AlFrame

AlNext == AlEnter \/ AlForward \/ AlForwardDone \/ AlBacktrack \/ AlReturn

SpecChainAlignments == AlInit /\ [][AlNext]_vars

\* a piece of an emitted chain that the alignment spliced so far covers
\* entirely: trimming the overlap at line 1536 leaves nothing of it
PieceTrimmedToNothing ==
    \E e \in 1..Len(al_callbacks) :
        \E k \in 2..Len(al_callbacks[e].pieces) :
            al_callbacks[e].pieces[k].end <= al_callbacks[e].pieces[k - 1].end

\* the label change from anchor p to anchor q is forbidden by the oracle
ForbiddenChange(p, q) ==
    /\ al_in.labeled_aligner
    /\ al_in.oracle[anchors[p].col][anchors[q].col] = ninf

\* C10 as stated: chain_alignments never emits a chain that holds anchors of
\* two alignments A and B when the label-change score from A's labels to B's
\* labels is minus infinity.
NoChainHoldsForbiddenPair ==
    \A e \in 1..Len(al_callbacks) :
        LET chain == al_callbacks[e].chain
        IN \A p \in 1..Len(chain) : \A q \in (p + 1)..Len(chain) :
                chain[p][2] # chain[q][2] => ~ForbiddenChange(chain[p][1], chain[q][1])

\* C10, amended: in every chain that chain_alignments emits, two consecutive
\* anchors that lie on different alignments never have a label-change score
\* of minus infinity; the chain may still hold anchors of two alignments A
\* and B with a forbidden change when an alignment between them is reached
\* from A and reaches B by allowed changes. Every emitted chain spans two
\* alignments at least, so two alignments whose only connection is forbidden
\* produce no callback at all.
NoForbiddenLinkInChain ==
    \A e \in 1..Len(al_callbacks) :
        LET chain == al_callbacks[e].chain
        IN \A p \in 1..(Len(chain) - 1) :
            chain[p][2] # chain[p + 1][2]
                => ~ForbiddenChange(chain[p][1], chain[p + 1][1])

\* a chain was emitted that goes from A through a third alignment to B,
\* where the change from A to B is forbidden
ForbiddenPairJoinedThroughThird ==
    \E e \in 1..Len(al_callbacks) :
        LET chain == al_callbacks[e].chain
        IN \E p \in 1..Len(chain) : \E q \in (p + 2)..Len(chain) :
            /\ chain[p][2] # chain[q][2]
            /\ ForbiddenChange(chain[p][1], chain[q][1])
            /\ \E m \in (p + 1)..(q - 1) : chain[m][2] \notin {chain[p][2], chain[q][2]}

\* C11: every chain that chain_alignments passes to the callback holds
\* anchors of two distinct source alignments at least; a chain whose anchors
\* all lie on one alignment is never passed.
EmittedChainsSpanTwoAlignments ==
    \A e \in 1..Len(al_callbacks) :
        \E p, q \in 1..Len(al_callbacks[e].chain) :
            al_callbacks[e].chain[p][2] # al_callbacks[e].chain[q][2]

\* chain_alignments returned without a callback although it walked a chain
\* of two anchors or more: that chain lay on one alignment
SingleAlignmentChainDropped ==
    /\ al_pc = "done"
    /\ al_callbacks = <<>>
    /\ \E a \in al_used : anchors[a].last # nid

\* ----------------------------------------------------------------------
\* The order of emission of call_seed_chains_both_strands: the same seeds
\* supplied in every order.
\* ----------------------------------------------------------------------
SupplyOrders(n) == { p \in [1..n -> 1..n] : \A a, b \in 1..n : a # b => p[a] # p[b] }

SeedOrderInit ==
    /\ sc_in \in { [fwd_seeds |-> [k \in 1..Len(s) |-> s[p[k]]], bwd_seeds |-> b,
                    min_exact_match |-> [num |-> 0, den |-> 1], skip_column |-> {},
                    pad |-> pad] :
                   s \in FwdSeedChoices, p \in SupplyOrders(Len(FwdClippings)),
                   b \in BwdSeedChoices, pad \in UniformPads }
    /\ sc_pc = "start"
    /\ sc_tables = <<>>
    /\ sc_next = 0
    /\ both_used = {}
    /\ chains = <<>>
    /\ last_chain_score = ScoreMin
    /\ coverage_too_low = FALSE
    /\ sc_collected = {}
    /\ sc_terminated = FALSE
    /\ sc_callbacks = <<>>
    /\ CaIdle
    /\ AlIdle
    /\ RdIdle
    /\ BrwtIdle
    /\ OthersIdle

SpecSeedOrder == SeedOrderInit /\ [][ScNext]_vars

\* a DP table with each row's seed index replaced by the seed itself
ResolvedTable(seeds, dp_table) ==
    [i \in 1..Len(dp_table) |->
        [row |-> [dp_table[i] EXCEPT !.current_seed_index = nid],
         seed |-> seeds[dp_table[i].current_seed_index]]]

\* the labelled seeds in the order of their clipping
RECURSIVE SeedsByClipping(_, _)
SeedsByClipping(seeds, clippings) ==
    IF clippings = <<>> THEN <<>>
    ELSE SelectSeq(seeds, LAMBDA a : a.clipping = Head(clippings) /\ a.labels # {})
            \o SeedsByClipping(seeds, Tail(clippings))

\* the key the statement names: clipping and coordinate of the seed the
\* chain was started from
StartKey(chain) ==
    <<chain[1].first.clipping,
      CHOOSE c \in {l[2] : l \in chain[1].first.labels} :
            \A d \in {l[2] : l \in chain[1].first.labels} : c >= d>>

KeyGreaterEq(a, b) == a[1] > b[1] \/ (a[1] = b[1] /\ a[2] >= b[2])

\* C12 as stated: chains of equal score reach the callback in descending
\* order of (clip_start, coordinate).
EqualScoreChainsByKeyDescending ==
    \A k \in 1..(Len(sc_callbacks) - 1) :
        (sc_callbacks[k].score = sc_callbacks[k + 1].score
            /\ sc_callbacks[k].chain # <<>> /\ sc_callbacks[k + 1].chain # <<>>)
            => KeyGreaterEq(StartKey(sc_callbacks[k].chain), StartKey(sc_callbacks[k + 1].chain))

\* C12, amended: the scores of the chains passed to the callback never
\* increase, and the sorted DP table, the backtrace and the order of the
\* starts do not depend on the order in which the seeds were supplied (the
\* starts are ordered by score, then strand, then row of the table, which is
\* sorted by label, coordinate, clipping and end, all descending). Chains
\* of equal score are passed in the iteration order of the unordered
\* multiset that collects them, which no key determines.
EmissionOrder ==
    /\ \A k \in 1..(Len(sc_callbacks) - 1) :
            sc_callbacks[k].score >= sc_callbacks[k + 1].score
    /\ sc_tables # <<>> =>
        \E canon \in ChainSeeds(SeedsByClipping(sc_in.fwd_seeds, FwdClippings), sc_in.pad) :
           /\ ResolvedTable(canon.seeds, canon.dp_table)
                = ResolvedTable(sc_tables.both_seeds[0], sc_tables.dp_tables[0])
           /\ canon.backtrace = sc_tables.seed_backtraces[0]
           /\ \A s \in 1..(Len(sc_tables.starts) - 1) :
                StartGreater(sc_tables.starts[s], sc_tables.starts[s + 1])

\* the seeds were supplied in another order than that of their clippings and
\* two distinct chains of equal score have reached the callback
EqualScoreChainsEmittedOutOfSupplyOrder ==
    /\ \E a, b \in 1..Len(sc_in.fwd_seeds) :
            a < b /\ sc_in.fwd_seeds[a].clipping > sc_in.fwd_seeds[b].clipping
    /\ \E k \in 1..(Len(sc_callbacks) - 1) :
            /\ sc_callbacks[k].score = sc_callbacks[k + 1].score
            /\ sc_callbacks[k].chain # sc_callbacks[k + 1].chain
            /\ sc_callbacks[k + 1].chain # <<>>

\* ======================================================================
\* AnnotationBuffer (annotation_buffer.cpp)
\*
\* The base graph has the nodes 1..offset_. In the modes "wrapper" (a
\* CanonicalDBG around a primary graph) and "canonical" (a graph in
\* CANONICAL mode without the wrapper) the nodes offset_+1..2*offset_ are the
\* reverse complements of the nodes 1..offset_, and the annotation has one
\* row for each base node. The matrix has no coordinates (multi_int_ is reset
\* for every mode but BASIC, line 32).
\* ======================================================================
offset_ == 2              \* graph_->max_index() of the base graph
MaxRounds == 2            \* calls of fetch_queued_annotations
MaxQueuedPaths == 2       \* paths queued before one fetch
MaxPathLength == 2        \* nodes of one queued path
npos == 0                 \* DeBruijnGraph::npos
nannot == 2147483647      \* the largest size_t: annotation not fetched yet

\* the nodes of the graph; a node of in.unmapped is a dummy node that
\* map_to_nodes does not find, and has no reverse complement in the graph
AbNodes(in) ==
    IF in.mode = "basic" THEN 1..offset_ ELSE 1..(2 * offset_) \cup in.unmapped

\* CanonicalDBG::reverse_complement(node) in the numbering above
AbReverseComplement(node) == IF node <= offset_ THEN node + offset_ ELSE node - offset_

\* CanonicalDBG::get_base_node (canonical_dbg.hpp 37-40)
get_base_node(node) == IF node <= offset_ THEN node ELSE node - offset_

\* base_path[i] (lines 108-125): the wrapper's base node, the node the
\* canonical k-mer maps to (npos for the nodes map_to_nodes does not find),
\* or the node itself
BasePathNode(in, node) ==
    IF in.mode = "canonical"
    THEN IF node \in in.unmapped THEN npos ELSE get_base_node(node)
    ELSE IF in.mode = "wrapper" THEN get_base_node(node)
    ELSE node

\* AnnotatedDBG::graph_to_anno_index and anno_to_graph_index
graph_to_anno_index(node) == node - 1
anno_to_graph_index(row) == row + 1

\* try_emplace(key, value): no effect when the key is present
TryEmplace(map, key, value) ==
    IF key \in DOMAIN map THEN map ELSE [k \in DOMAIN map \cup {key} |->
                                            IF k = key THEN value ELSE map[k]]

\* operator[](key) = value
Assign(map, key, value) ==
    [k \in DOMAIN map \cup {key} |-> IF k = key THEN value ELSE map[k]]

\* try_emplace(key, value) on the buffer: a new key goes to the end of
\* node_to_cols_; with coords, label_coords_.emplace_back() follows
\* (has_coordinates() is multi_int_ != nullptr)
EmplaceNode(in, st, key, value, coords) ==
    IF key \in DOMAIN st.map THEN st
    ELSE [st EXCEPT !.map = TryEmplace(st.map, key, value),
                    !.keys = IF in.coords THEN Append(@, key) ELSE @,
                    !.label_coords = IF coords /\ in.coords THEN Append(@, <<>>) ELSE @]

\* node_to_cols_[key] = value
AssignNode(in, st, key, value) ==
    [st EXCEPT !.map = Assign(st.map, key, value),
               !.keys = IF key \in DOMAIN st.map \/ ~in.coords THEN @ ELSE Append(@, key)]

\* the coordinates of a row of the matrix, one tuple for each of its labels in
\* the order of the labels (lines 82-94); no tuple is longer than
\* max_coords_per_node_
RowCoords(in, row) ==
    LET labels == in.rows[row + 1]
        sorted == [k \in 1..Cardinality(labels) |->
                        CHOOSE l \in labels : Cardinality({m \in labels : m < l}) = k - 1]
    IN [k \in 1..Cardinality(labels) |-> <<10 * row + sorted[k]>>]

\* a table that stores every set it is given again
CacheColumnSetAppend(sets, labels) == [sets |-> Append(sets, labels), id |-> Len(sets)]

\* cache_column_set(labels): the id of the set, which is added when new;
\* ids count from 0 and id 0 is the empty set
cache_column_set(sets, labels) ==
    IF \E i \in 1..Len(sets) : sets[i] = labels
    THEN [sets |-> sets, id |-> (CHOOSE i \in 1..Len(sets) : sets[i] = labels) - 1]
    ELSE [sets |-> Append(sets, labels), id |-> Len(sets)]

\* push_node_labels (lines 55-74)
push_node_labels(in, st, node, row, labels) ==
    LET c == cache_column_set(st.sets, labels)
        label_i == c.id
        base_node == anno_to_graph_index(row)
        s1 == [st EXCEPT !.sets = c.sets]
    IN IF in.mode = "basic" THEN AssignNode(in, s1, node, label_i)
       ELSE IF in.mode = "wrapper" THEN AssignNode(in, s1, base_node, label_i)
       ELSE LET s2 == AssignNode(in, s1, node, label_i)
                s3 == EmplaceNode(in, s2, base_node, label_i, FALSE)
            IN IF base_node # node /\ base_node \notin DOMAIN s2.map /\ in.coords
               THEN [s3 EXCEPT !.label_coords = Append(@, @[Len(@)])]
               ELSE s3

\* fetch_row_batch (lines 51-103): the rows of the matrix for the queued
\* rows, pushed node by node; with coordinates the coordinates of a row are
\* put at the end of label_coords_ first; the queues are moved away
RECURSIVE FetchRows(_, _, _)
FetchRows(in, st, k) ==
    IF k > Len(st.queued_nodes) THEN [st EXCEPT !.queued_nodes = <<>>, !.queued_rows = <<>>]
    ELSE LET row == st.queued_rows[k]
             s1 == IF in.coords
                   THEN [st EXCEPT !.label_coords = Append(@, RowCoords(in, row))]
                   ELSE st
         IN FetchRows(in, push_node_labels(in, s1, st.queued_nodes[k], row, in.rows[row + 1]),
                      k + 1)

fetch_row_batch(in, st) == FetchRows(in, st, 1)

\* line 180 reads find_b->second after the insertion of line 179. The insertion
\* may move the values of node_to_cols_ and leave find_b dangling: the read then
\* gives what the freed storage holds, which is not nannot. stale is the set of
\* the nodes at which the read is such a stale one.
ReadAfterInsert(st, base, node, stale) == IF node \in stale THEN 0 ELSE st.map[base]

\* one node of a queued path (lines 129-199)
QueueNode(in, st, node, stale) ==
    LET base == BasePathNode(in, node)
        row == graph_to_anno_index(base)
        folded == in.mode # "basic"
    IN IF base = npos
       THEN EmplaceNode(in, st, node, 0, TRUE)
       ELSE IF base \in in.dummy
       THEN IF folded /\ base # node
            THEN EmplaceNode(in, EmplaceNode(in, st, base, 0, TRUE), node, 0, TRUE)
            ELSE EmplaceNode(in, st, base, 0, TRUE)
       ELSE IF in.mode \in {"wrapper", "basic"}
       THEN IF base \in DOMAIN st.map THEN st
            ELSE [EmplaceNode(in, st, base, nannot, FALSE) EXCEPT
                            !.queued_rows = Append(@, row),
                            !.queued_nodes = Append(@, base)]
       ELSE LET has_a == node \in DOMAIN st.map
                has_b == base \in DOMAIN st.map
                s1 == IF ~has_a /\ ~has_b
                      THEN IF node # base
                           THEN [EmplaceNode(in, EmplaceNode(in, st, node, nannot, FALSE),
                                             base, nannot, FALSE) EXCEPT
                                    !.queued_rows = @ \o <<row, row>>,
                                    !.queued_nodes = @ \o <<node, base>>]
                           ELSE [EmplaceNode(in, st, node, nannot, FALSE) EXCEPT
                                    !.queued_rows = Append(@, row),
                                    !.queued_nodes = Append(@, node)]
                      ELSE IF ~has_a /\ has_b
                      THEN IF ReadAfterInsert(st, base, node, stale) = nannot
                           THEN [EmplaceNode(in, st, node, st.map[base], FALSE) EXCEPT
                                           !.queued_rows = Append(@, row),
                                           !.queued_nodes = Append(@, node)]
                           ELSE EmplaceNode(in, st, node, st.map[base], FALSE)
                      ELSE IF has_a /\ ~has_b
                      THEN EmplaceNode(in, st, base, st.map[node], FALSE)
                      ELSE LET label_i == IF st.map[node] <= st.map[base]
                                          THEN st.map[node] ELSE st.map[base]
                           IN IF label_i # nannot
                              THEN AssignNode(in, AssignNode(in, st, node, label_i), base, label_i)
                              ELSE st
            IN IF Len(s1.queued_rows) >= in.row_batch_size
               THEN fetch_row_batch(in, s1)
               ELSE s1

RECURSIVE QueuePathNodes(_, _, _, _, _)
QueuePathNodes(in, st, path, i, stale) ==
    IF i > Len(path) THEN st
    ELSE QueuePathNodes(in, QueueNode(in, st, path[i], stale), path, i + 1, stale)

RECURSIVE QueuePaths(_, _, _, _, _)
QueuePaths(in, st, paths, p, stale) ==
    IF p > Len(paths) THEN st
    ELSE QueuePaths(in, QueuePathNodes(in, st, paths[p], 1, stale), paths, p + 1, stale)

\* fetch_queued_annotations (lines 39-205) on the buffer's maps
fetch_queued_annotations(in, map, keys, label_coords, sets, paths, stale) ==
    fetch_row_batch(in, QueuePaths(in, [map |-> map, keys |-> keys,
                                        label_coords |-> label_coords, sets |-> sets,
                                        queued_nodes |-> <<>>, queued_rows |-> <<>>],
                                   paths, 1, stale))

\* the nodes at which line 180 is executed: a node of a CANONICAL graph without
\* the wrapper that is not its own base node; the read can be stale at each
StaleChoices(in, paths) ==
    IF in.mode # "canonical" THEN {{}}
    ELSE SUBSET { n \in UNION { SeqRange(paths[p]) : p \in 1..Len(paths) } :
                    BasePathNode(in, n) \notin {npos, n} }

\* get_labels_and_coords(node) (lines 207-221): the column set, or nothing
\* for a node that was not seen or not fetched
get_labels_and_coords(in, map, sets, node) ==
    LET n == IF in.mode = "wrapper" THEN get_base_node(node) ELSE node
    IN IF n \notin DOMAIN map \/ map[n] = nannot
       THEN [found |-> FALSE, id |-> nannot, labels |-> {}]
       ELSE [found |-> TRUE, id |-> map[n], labels |-> sets[map[n] + 1]]

\* the label sets of the rows, one row for each base node
AbRowChoices == { r \in [1..offset_ -> {{}, {0}, {0, 1}}] : r[1] = {0} }

\* the queued paths: up to MaxPathLength nodes of the graph
AbPaths(in) ==
    UNION { [1..n -> AbNodes(in)] : n \in 1..MaxPathLength }

\* the graph, the matrix and the batch size: the last base node may be a
\* dummy node of the BOSS table, and a CANONICAL graph may have one more
\* node that map_to_nodes does not find
AbInit ==
    /\ ab_in \in { [mode |-> m, row_batch_size |-> s, rows |-> r, dummy |-> d, unmapped |-> u,
                     coords |-> FALSE] :
                    m \in {"basic", "wrapper", "canonical"}, s \in {1, 3}, r \in AbRowChoices,
                    d \in {{}, {offset_}}, u \in {{}, {2 * offset_ + 1}} }
    /\ ab_in.unmapped # {} => ab_in.mode = "canonical" /\ ab_in.dummy = {}
    /\ node_to_cols_ = <<>>
    /\ ab_keys = <<>>
    /\ label_coords_ = <<>>
    /\ column_sets_ = << {} >>
    /\ queued_paths_ = <<>>
    /\ ab_fetched = {}
    /\ ab_rounds = 0
    /\ RdIdle
    /\ BrwtIdle
    /\ ChainerIdle
    /\ PiIdle
    /\ CgIdle
    /\ DpIdle
    /\ MoreIdle

AbFrame == UNCHANGED <<rdVars, brwtVars, chainVars, piVars, cgVars, dpVars, moreVars>>

\* queue_path(path)
AbQueuePath ==
    /\ ab_in # <<>>
    /\ ab_rounds < MaxRounds
    /\ Len(queued_paths_) < MaxQueuedPaths
    /\ \E path \in AbPaths(ab_in) : queued_paths_' = Append(queued_paths_, path)
    /\ UNCHANGED <<ab_in, node_to_cols_, ab_keys, label_coords_, column_sets_, ab_fetched,
                   ab_rounds>>
    /\ AbFrame

\* fetch_queued_annotations()
AbFetch ==
    /\ ab_in # <<>>
    /\ ab_rounds < MaxRounds
    /\ \E stale \in StaleChoices(ab_in, queued_paths_) :
       LET st == fetch_queued_annotations(ab_in, node_to_cols_, ab_keys, label_coords_,
                                          column_sets_, queued_paths_, stale)
       IN /\ node_to_cols_' = st.map
          /\ ab_keys' = st.keys
          /\ label_coords_' = st.label_coords
          /\ column_sets_' = st.sets
    /\ queued_paths_' = <<>>
    /\ ab_fetched' = ab_fetched \cup
            UNION { { queued_paths_[p][i] : i \in 1..Len(queued_paths_[p]) } :
                    p \in 1..Len(queued_paths_) }
    /\ ab_rounds' = ab_rounds + 1
    /\ UNCHANGED ab_in
    /\ AbFrame

AbNext == AbQueuePath \/ AbFetch

SpecAnnotationBuffer == AbInit /\ [][AbNext]_vars

\* node_to_cols[n] as get_labels_and_coords reads it
AbLookup(node) == get_labels_and_coords(ab_in, node_to_cols_, column_sets_, node)

AbCanonical == ab_in # <<>> /\ ab_in.mode \in {"wrapper", "canonical"}

\* the folding read for every node: in a canonical graph, after a fetch, every
\* node of a fetched path and its reverse complement have the same entry, also
\* when the reverse complement was never keyed
CanonicalFoldingAllNodes ==
    (AbCanonical /\ queued_paths_ = <<>>) =>
        \A n \in ab_fetched \ ab_in.unmapped :
            AbLookup(n) = AbLookup(AbReverseComplement(n))

\* C13: after a fetch in a canonical graph, every node n of a fetched path has
\* an entry, equal to the entry of its base node, and equal to the entry of its
\* reverse complement whenever that node is keyed (under the CanonicalDBG
\* wrapper the two nodes share the key of the base node; in CANONICAL mode
\* without the wrapper the reverse complement is keyed once it is the base node
\* of a fetched node or was itself on a fetched path). The stale read of line
\* 180 breaks it: a node queued after its base node keeps nannot.
CanonicalFolding ==
    (AbCanonical /\ queued_paths_ = <<>>) =>
        \A n \in ab_fetched \ ab_in.unmapped :
            LET rc == AbReverseComplement(n)
                known == ab_in.mode = "wrapper" \/ rc \in DOMAIN node_to_cols_
            IN /\ AbLookup(n).found
               /\ AbLookup(n) = AbLookup(BasePathNode(ab_in, n))
               /\ known => AbLookup(n) = AbLookup(rc)

\* a node and its reverse complement were fetched in different rounds, with
\* a batch size that splits the rows of one round
FoldedAcrossRounds ==
    /\ AbCanonical
    /\ ab_rounds = MaxRounds
    /\ ab_in.row_batch_size = 1
    /\ \E n \in ab_fetched \ ab_in.unmapped :
            /\ AbReverseComplement(n) \in ab_fetched
            /\ AbLookup(n).found
            /\ AbLookup(n).labels # {}

\* a node and its base node were on one fetched path of a CANONICAL graph; the
\* base node has its labels and the node is left unfetched
StaleReadLeavesNodeUnfetched ==
    /\ ab_in # <<>>
    /\ ab_in.mode = "canonical"
    /\ queued_paths_ = <<>>
    /\ \E n \in ab_fetched \ ab_in.unmapped :
            /\ BasePathNode(ab_in, n) # n
            /\ BasePathNode(ab_in, n) \in DOMAIN node_to_cols_
            /\ n \in DOMAIN node_to_cols_
            /\ node_to_cols_[n] = nannot
            /\ node_to_cols_[BasePathNode(ab_in, n)] # nannot

(***************************************************************************)
(* IPathIndex::get_dist over the superbubble tables                        *)
(*                                                                         *)
(* The unitig graph is a chain of simple superbubbles: bubble k has the    *)
(* source 3k-2, the two branches 3k-1 and 3k (of equal length) and the     *)
(* terminus 3k+1, which is the source of bubble k+1; one more unitig is    *)
(* connected to nothing.  Path ids are 1-based, the tables 0-based.        *)
(***************************************************************************)
MaxBubbles == 3
PathInf == 2147483647          \* std::numeric_limits<size_t>::max()
UnitigLengths == {2, 10}
MaxDistChoices == {5, 25, 100}

BubbleSource(k) == 3 * k - 2
BubbleOf(u) == (u + 1) \div 3       \* the bubble a branch or a terminus lies in
IsBranch(u) == u % 3 # 1

\* the graphs of nb bubbles: the sources and termini have one length, the
\* branches another, the unconnected unitig the length 2
PathGraphsOf(nb) ==
    { [bubbles |-> nb,
       length |-> [u \in 1..(3 * nb + 2) |->
                      IF u = 3 * nb + 2 THEN 2 ELSE IF IsBranch(u) THEN branch ELSE chain]] :
      chain \in UnitigLengths, branch \in UnitigLengths }

PathGraphs == UNION { PathGraphsOf(nb) : nb \in 1..MaxBubbles }

\* The tables the constructor leaves for such a graph.  The search from a source
\* stops at the bubble's terminus: every unitig seen gets the source and its
\* distance from the start of the source, the source gets the terminus and its
\* distance, every unitig seen can reach the terminus; entries never written
\* are 0.  The searches run in parallel (line 323) and line 417 sets the bit of
\* can_reach_terminus by a load and a store of its word that are not atomic:
\* `lost` holds the unitigs whose bit the stores of the other searches have
\* undone (LostBitChoices).  The last terminus and the unconnected unitig have
\* no successor and see nothing but themselves, they write nothing (line 433).
BuildSuperbubbleIndex(g, lost) ==
    LET n == 3 * g.bubbles + 2
        chain == 3 * g.bubbles + 1
        src(u) == BubbleSource(BubbleOf(u))
        source_of(u) == IF u = 1 \/ u = n THEN 0 ELSE src(u)
        source_dist(u) ==
            IF u = 1 \/ u = n THEN 0
            ELSE IF IsBranch(u) THEN g.length[src(u)]
            ELSE g.length[src(u)] + g.length[src(u) + 1]
        is_start(u) == u < chain /\ ~IsBranch(u)
    IN [graph |-> g,
        num_unitigs_ |-> n,
        is_superbubble_start_ |-> [i \in 0..(n - 1) |-> is_start(i + 1)],
        superbubble_sources_ |-> [i \in 0..(2 * n - 1) |->
            IF i % 2 = 0 THEN source_of(i \div 2 + 1) ELSE source_dist(i \div 2 + 1)],
        superbubble_termini_ |-> [i \in 0..(2 * n - 1) |->
            IF ~is_start(i \div 2 + 1) THEN 0
            ELSE IF i % 2 = 0 THEN i \div 2 + 4
            ELSE g.length[i \div 2 + 1] + g.length[i \div 2 + 2]],
        can_reach_terminus_ |-> [i \in 0..(n - 1) |-> i + 1 <= chain /\ (i + 1) \notin lost]]

\* for (const auto &[u_id, d] : seen) of the search of bubble k: seen holds the
\* source, the two branches in the order call_outgoing_kmers gave them (lines
\* 344 and 363; `swapped` holds the bubbles whose branch 3k came first) and the
\* terminus; this is the unitig of its i-th element
SeenUnitig(k, i, swapped) ==
    3 * k - 3 + (IF k \in swapped /\ i \in {2, 3} THEN 5 - i ELSE i)

\* can_reach_terminus[u_id] = true loads the word, sets the bit and stores the
\* word.  The word the build leaves is the word of the last store; it holds the
\* bit of that store and the word its load has read, which is the word of an
\* earlier store, and so on back to a load of the empty word: the bits left are
\* those of a chain of writes, each of which has loaded what the one before it
\* has stored, and every write outside the chain stores between the load and
\* the store of a write of the chain of another search, which undoes it.  A
\* state is the chain so far: the search of its last write, the last write of
\* every search in it (0: none) and the bits it holds.  A write joins the chain
\* when its search has nothing left to store between the store it reads and
\* its own load: the first write of the chain is the first of its search, and
\* a write that follows a write of its own search is the next of that search.
StoreChainStep(nb, swapped, linked) ==
    UNION { UNION { { [last |-> k,
                       done |-> [c.done EXCEPT ![k] = i],
                       word |-> c.word \cup {SeenUnitig(k, i, swapped)}] :
                      i \in { j \in (c.done[k] + 1)..4 :
                                /\ c.last = 0 => j = 1
                                /\ c.last = k => j = c.done[k] + 1 } } :
                    k \in 1..nb } :
            c \in linked }

RECURSIVE StoreChains(_, _, _, _)
StoreChains(nb, swapped, linked, n) ==
    IF n = 0 \/ linked = {} THEN linked
    ELSE linked \cup StoreChains(nb, swapped, StoreChainStep(nb, swapped, linked), n - 1)

\* the words of can_reach_terminus the searches of nb sources can leave: the
\* last store of a build is the last write of its search
CanReachTerminusWords(nb) ==
    UNION { { c.word : c \in { d \in StoreChains(nb, swapped,
                                        {[last |-> 0, done |-> [k \in 1..nb |-> 0], word |-> {}]},
                                        4 * nb) :
                                d.last # 0 /\ d.done[d.last] = 4 } } :
            swapped \in SUBSET (1..nb) }

\* the sets of bits a build of nb bubbles can lose: none with one search (and
\* with one thread), with two and more searches every bit but never all
LostBitChoices(nb) == { (1..(3 * nb + 1)) \ word : word \in CanReachTerminusWords(nb) }

\* --path_id < size() on a size_t: path id 0 wraps around and fails the test
get_superbubble_terminus(index, path_id) ==
    IF path_id >= 1 /\ path_id - 1 < index.num_unitigs_
            /\ index.is_superbubble_start_[path_id - 1]
    THEN <<index.superbubble_termini_[(path_id - 1) * 2],
           index.superbubble_termini_[(path_id - 1) * 2 + 1]>>
    ELSE <<0, 0>>

get_superbubble_and_dist(index, path_id) ==
    IF path_id >= 1 /\ path_id - 1 < index.num_unitigs_
    THEN <<index.superbubble_sources_[(path_id - 1) * 2],
           index.superbubble_sources_[(path_id - 1) * 2 + 1]>>
    ELSE <<0, 0>>

is_superbubble_source(index, path_id) ==
    path_id >= 1 /\ path_id - 1 < index.num_unitigs_ /\ index.is_superbubble_start_[path_id - 1]

can_reach_superbubble_terminus(index, path_id) ==
    path_id >= 1 /\ path_id - 1 < index.num_unitigs_ /\ index.can_reach_terminus_[path_id - 1]

\* get_dist: while (sb2 && sb2 != t && d < max_dist)
RECURSIVE SuperbubbleWalk(_, _, _, _, _)
SuperbubbleWalk(index, sb2, t, d, max_dist) ==
    IF sb2 # 0 /\ sb2 # t /\ d < max_dist
    THEN LET next == get_superbubble_and_dist(index, sb2)
         IN SuperbubbleWalk(index, next[1], t,
                            IF next[1] # 0 THEN d + next[2] ELSE d, max_dist)
    ELSE [sb2 |-> sb2, d |-> d]

\* IPathIndex::get_dist(path_id_1, path_id_2, max_dist)
get_dist(index, path_id_1, path_id_2, max_dist) ==
    IF path_id_1 = path_id_2 THEN 0
    ELSE LET sbd1 == get_superbubble_and_dist(index, path_id_1)
             sbd2 == get_superbubble_and_dist(index, path_id_2)
             sb1 == sbd1[1]
             d1 == sbd1[2]
             sb2 == sbd2[1]
             d2 == sbd2[2]
             is_source1 == is_superbubble_source(index, path_id_1)
         IN IF is_source1 /\ sb2 = path_id_1 THEN d2
            ELSE IF sb1 = sb2
            THEN LET td == get_superbubble_terminus(index, sb1)
                 IN IF td[1] = path_id_2 /\ can_reach_superbubble_terminus(index, path_id_1)
                       THEN d2 - d1
                       ELSE PathInf
            ELSE IF ~can_reach_superbubble_terminus(index, path_id_1) THEN PathInf
            ELSE LET td == get_superbubble_terminus(index, IF is_source1 THEN path_id_1 ELSE sb1)
                     t == td[1]
                     d == td[2] - (IF is_source1 THEN 0 ELSE d1)
                     w == SuperbubbleWalk(index, sb2, t, d, max_dist)
                 IN IF w.sb2 = t THEN w.d + d2 ELSE PathInf

PiInit ==
    /\ \E nb \in 1..MaxBubbles :
        \E lost \in LostBitChoices(nb) :
            \E g \in PathGraphsOf(nb) : pi_index = BuildSuperbubbleIndex(g, lost)
    /\ pi_call = NoCall
    /\ pi_result = <<>>
    /\ RdIdle
    /\ BrwtIdle
    /\ ChainerIdle
    /\ AbIdle
    /\ CgIdle
    /\ DpIdle
    /\ MoreIdle

\* PathIndex::serialize: paths_indices_ (here the unitig graph),
\* path_boundaries_ (here the number of its set bits, one per unitig),
\* is_superbubble_start_, superbubble_sources_, superbubble_termini_,
\* can_reach_terminus_
PiSerialize(index) ==
    << [t |-> "matrix", v |-> index.graph],
       [t |-> "bit_vector", v |-> index.num_unitigs_],
       [t |-> "bit_vector", v |-> index.is_superbubble_start_],
       [t |-> "int_vector", v |-> index.superbubble_sources_],
       [t |-> "int_vector", v |-> index.superbubble_termini_],
       [t |-> "bit_vector", v |-> index.can_reach_terminus_] >>

\* the graphs whose files load is given: every graph of one bubble, and of the
\* longer chains those with the shortest unitigs
PiFileGraphs ==
    {g \in PathGraphs : g.bubbles = 1 \/ \A u \in DOMAIN g.length : g.length[u] = 2}

\* the files load is given: no file, or a file serialize wrote for a graph,
\* whole or cut after any of its members
PiFiles ==
    {<<[t |-> "missing", v |-> <<>>]>>}
        \cup UNION { {SubSeq(PiSerialize(BuildSuperbubbleIndex(g, {})), 1, n) : n \in 0..6} :
                     g \in PiFileGraphs }

\* SuperbubbleStorage::load(in) on member k of the file, lines 53 and 54: load
\* returns nothing. Where the file holds the member it is read; where the file
\* has ended the storage either throws, and the member keeps its value, or
\* reads nothing and is left empty
StorageLoad(in, k, old, storage_load_throws) ==
    IF Len(in) >= k /\ in[k].t = "int_vector" THEN [thrown |-> FALSE, v |-> in[k].v]
    ELSE IF storage_load_throws THEN [thrown |-> TRUE, v |-> old]
    ELSE [thrown |-> FALSE, v |-> <<>>]

\* PathIndex::load: the members are read in the order of the file, each into the
\* object's own member, so the members read before the one that fails keep what
\* the file gave them; a load that returns false leaves its member as it was
PiLoadFile(index, in, storage_load_throws) ==
    LET ok1 == NextIs(in, "matrix")
        ok2 == ok1 /\ Len(in) >= 2 /\ in[2].t = "bit_vector"
        ok3 == ok2 /\ Len(in) >= 3 /\ in[3].t = "bit_vector"
        sources == StorageLoad(in, 4, index.superbubble_sources_, storage_load_throws)
        termini == StorageLoad(in, 5, index.superbubble_termini_, storage_load_throws)
        ok4 == ok3 /\ ~sources.thrown
        ok5 == ok4 /\ ~termini.thrown
        ok6 == ok5 /\ Len(in) >= 6 /\ in[6].t = "bit_vector"
    IN [ok |-> ok6,
        index |-> [graph |-> IF ok1 THEN in[1].v ELSE index.graph,
                   num_unitigs_ |-> IF ok2 THEN in[2].v ELSE index.num_unitigs_,
                   is_superbubble_start_ |->
                        IF ok3 THEN in[3].v ELSE index.is_superbubble_start_,
                   superbubble_sources_ |->
                        IF ok3 THEN sources.v ELSE index.superbubble_sources_,
                   superbubble_termini_ |->
                        IF ok4 THEN termini.v ELSE index.superbubble_termini_,
                   can_reach_terminus_ |->
                        IF ok6 THEN in[6].v ELSE index.can_reach_terminus_]]

\* load(filename_base) on the index the constructor has built
PiLoad ==
    /\ pi_call = NoCall
    /\ pi_index # <<>>
    /\ \E in \in PiFiles, storage_load_throws \in BOOLEAN :
        LET loaded == PiLoadFile(pi_index, in, storage_load_throws)
        IN /\ pi_index' = loaded.index
           /\ pi_call' = [op |-> "load", ok |-> loaded.ok]
           /\ pi_result' = loaded.ok
    /\ UNCHANGED <<rdVars, brwtVars, chainVars, abVars, cgVars, dpVars, moreVars>>

\* get_dist on a built index, or on one a load has filled
PiGetDist ==
    /\ pi_call = NoCall \/ (pi_call.op = "load" /\ pi_call.ok)
    /\ pi_index # <<>>
    /\ \E a, b \in 1..pi_index.num_unitigs_, max_dist \in MaxDistChoices :
        /\ pi_call' = [op |-> "get_dist", path_id_1 |-> a, path_id_2 |-> b, max_dist |-> max_dist]
        /\ pi_result' = get_dist(pi_index, a, b, max_dist)
    /\ UNCHANGED <<pi_index, rdVars, brwtVars, chainVars, abVars, cgVars, dpVars, moreVars>>

PiNext == PiLoad \/ PiGetDist
SpecGetDist == PiInit /\ [][PiNext]_vars

\* the unitig graph: where a unitig starts, counted from the start of unitig 1
RECURSIVE UnitigStart(_, _)
UnitigStart(g, u) ==
    IF u = 1 THEN 0
    ELSE IF IsBranch(u) THEN UnitigStart(g, BubbleSource(BubbleOf(u))) + g.length[BubbleSource(BubbleOf(u))]
    ELSE UnitigStart(g, u - 1) + g.length[u - 1]

OnChain(g, u) == u <= 3 * g.bubbles + 1
\* b can be reached from a; then every walk from a to b has one length
Reaches(g, a, b) ==
    /\ a # b /\ OnChain(g, a) /\ OnChain(g, b)
    /\ UnitigStart(g, a) < UnitigStart(g, b)
    /\ ~(IsBranch(a) /\ IsBranch(b) /\ BubbleOf(a) = BubbleOf(b))
UnitigDist(g, a, b) == UnitigStart(g, b) - UnitigStart(g, a)
\* a and b lie in one superbubble and b is its terminus
TerminusOfSameBubble(g, a, b) ==
    /\ a # b /\ OnChain(g, a) /\ OnChain(g, b) /\ ~IsBranch(b) /\ b > 1
    /\ a \in (b - 3)..(b - 1)

\* a strictly dominates b: a is a unitig of the chain, not a branch, and b
\* comes after it
Dominates(g, a, b) == Reaches(g, a, b) /\ ~IsBranch(a)
\* the distance the termini table holds for the superbubble that ends in b
TerminiDistance(g, b) == g.length[b - 3] + g.length[b - 2]
\* no bit of can_reach_terminus_ is missing
IntactIndex ==
    \A u \in 1..pi_index.num_unitigs_ :
        pi_index.can_reach_terminus_[u - 1] = OnChain(pi_index.graph, u)

\* C16: get_dist returns 0 for the same unitig; else the distance of the
\* termini table when a and b lie in one superbubble and b is its terminus;
\* else the sum of the chain distances when a strictly dominates b and the sum
\* is within max_dist; infinity in every other case.
GetDistByCases ==
    pi_call.op = "get_dist" =>
        LET g == pi_index.graph
            a == pi_call.path_id_1
            b == pi_call.path_id_2
        IN pi_result =
            IF a = b THEN 0
            ELSE IF TerminusOfSameBubble(g, a, b) THEN TerminiDistance(g, b)
            ELSE IF Dominates(g, a, b) /\ UnitigDist(g, a, b) <= pi_call.max_dist
                THEN UnitigDist(g, a, b)
            ELSE PathInf

\* what every index gives: 0 for the same unitig, the distance from the start
\* of a to the start of b or infinity when b can be reached from a, infinity
\* for every other pair
GetDistNeverAnotherDistance ==
    pi_call.op = "get_dist" =>
        LET g == pi_index.graph
            a == pi_call.path_id_1
            b == pi_call.path_id_2
        IN  /\ a = b => pi_result = 0
            /\ Reaches(g, a, b) => pi_result \in {UnitigDist(g, a, b), PathInf}
            /\ (a # b /\ ~Reaches(g, a, b)) => pi_result = PathInf

\* what an index without a lost bit gives in addition: the distance whenever
\* it is within max_dist
GetDistIsChainDistance ==
    (pi_call.op = "get_dist" /\ IntactIndex) =>
        LET g == pi_index.graph
            a == pi_call.path_id_1
            b == pi_call.path_id_2
        IN (Reaches(g, a, b) /\ UnitigDist(g, a, b) <= pi_call.max_dist)
                => pi_result = UnitigDist(g, a, b)

\* the index has lost the bit of a unitig of the chain, and get_dist has
\* returned infinity for a unitig that it dominates, within max_dist
DominatedUnitigUnreachable ==
    /\ pi_call.op = "get_dist"
    /\ ~IntactIndex
    /\ Dominates(pi_index.graph, pi_call.path_id_1, pi_call.path_id_2)
    /\ ~TerminusOfSameBubble(pi_index.graph, pi_call.path_id_1, pi_call.path_id_2)
    /\ UnitigDist(pi_index.graph, pi_call.path_id_1, pi_call.path_id_2) <= pi_call.max_dist
    /\ pi_result = PathInf

\* a distance from a branch of the first superbubble to a branch of the third has
\* been returned
DistAcrossThreeBubbles ==
    /\ pi_call.op = "get_dist"
    /\ pi_call.path_id_1 = 2
    /\ pi_call.path_id_2 = 9
    /\ pi_index.graph.bubbles >= 3
    /\ pi_result = UnitigDist(pi_index.graph, 2, 9)
    /\ pi_result < PathInf

\* a distance beyond max_dist has been returned
DistBeyondMaxDist ==
    /\ pi_call.op = "get_dist"
    /\ pi_result < PathInf
    /\ pi_result > pi_call.max_dist

(***************************************************************************)
(* Cigar: append and is_valid                                              *)
(***************************************************************************)
MaxCigarOps == 3        \* entries of a CIGAR given to is_valid
MaxOpLength == 2        \* length of one entry and of one append
MaxSeqLength == 2       \* length of reference and query
MaxAppends == 5         \* append calls in one run

Operators == {"CLIPPED", "MATCH", "MISMATCH", "INSERTION", "DELETION", "NODE_INSERTION"}
kSentinel == "$"

\* an append that always adds an entry
CigarAppendNewEntry(cigar, op, num) ==
    IF num = 0 THEN cigar ELSE Append(cigar, <<op, num>>)

\* Cigar::append(op, num) on the entries cigar
CigarAppend(cigar, op, num) ==
    IF num = 0 THEN cigar
    ELSE IF cigar = <<>> \/ cigar[Len(cigar)][1] # op
    THEN Append(cigar, <<op, num>>)
    ELSE [cigar EXCEPT ![Len(cigar)] = <<op, cigar[Len(cigar)][2] + num>>]

\* Cigar::append(Cigar&& other) on the entries cigar
CigarAppendCigar(cigar, other) ==
    IF other = <<>> THEN cigar
    ELSE CigarAppend(cigar, other[1][1], other[1][2]) \o Tail(other)

\* a comparison that looks at the first character only
StdEqualFirst(reference, ref_it, query, alt_it, n) ==
    reference[ref_it + 1] = query[alt_it + 1]

\* std::equal(ref_it, ref_it + n, alt_it)
StdEqual(reference, ref_it, query, alt_it, n) ==
    \A k \in 1..n : reference[ref_it + k] = query[alt_it + k]

\* Cigar::is_valid from entry i on, ref_it and alt_it being offsets into
\* reference and query; past_end is the character read by *ref_it when ref_it
\* is reference.end()
RECURSIVE IsValidFrom(_, _, _, _, _, _, _)
IsValidFrom(cigar, i, ref_it, alt_it, reference, query, past_end) ==
    IF i > Len(cigar) THEN ref_it = Len(reference) /\ alt_it = Len(query)
    ELSE LET op == cigar[i]
             n == op[2]
             ref_short == ref_it > Len(reference) - n
             query_short == alt_it > Len(query) - n
         IN IF n = 0 THEN FALSE
            ELSE CASE op[1] = "CLIPPED" ->
                        IF (ref_it # 0 \/ alt_it # 0)
                                /\ (ref_it # Len(reference) \/ alt_it # Len(query))
                        THEN IF query_short THEN FALSE
                             ELSE IsValidFrom(cigar, i + 1, ref_it, alt_it + n,
                                              reference, query, past_end)
                        ELSE IsValidFrom(cigar, i + 1, ref_it, alt_it, reference, query, past_end)
                   [] op[1] \in {"MATCH", "MISMATCH"} ->
                        IF ref_short \/ query_short THEN FALSE
                        ELSE IF StdEqual(reference, ref_it, query, alt_it, n) = (op[1] # "MATCH")
                        THEN FALSE
                        ELSE IsValidFrom(cigar, i + 1, ref_it + n, alt_it + n,
                                         reference, query, past_end)
                   [] op[1] = "INSERTION" ->
                        IF i > 1 /\ cigar[i - 1][1] = "DELETION" THEN FALSE
                        ELSE IF query_short THEN FALSE
                        ELSE IsValidFrom(cigar, i + 1, ref_it, alt_it + n,
                                         reference, query, past_end)
                   [] op[1] = "DELETION" ->
                        LET c == IF ref_it < Len(reference) THEN reference[ref_it + 1]
                                 ELSE past_end
                        IN IF i > 1 /\ cigar[i - 1][1] = "INSERTION" /\ c # kSentinel THEN FALSE
                           ELSE IF ref_short THEN FALSE
                           ELSE IsValidFrom(cigar, i + 1, ref_it + n, alt_it,
                                            reference, query, past_end)
                   [] OTHER ->
                        IsValidFrom(cigar, i + 1, ref_it, alt_it, reference, query, past_end)

is_valid(cigar, reference, query, past_end) ==
    IsValidFrom(cigar, 1, 0, 0, reference, query, past_end)

SeqsUpTo(S, n) == UNION { [1..l -> S] : l \in 0..n }
CigarChoices == SeqsUpTo(Operators \X (0..MaxOpLength), MaxCigarOps)
ReferenceChoices == SeqsUpTo({"A", kSentinel}, MaxSeqLength)
QueryChoices == SeqsUpTo({"A", "C"}, MaxSeqLength)
NoneAppended == [op \in Operators |-> 0]

CgFrame == UNCHANGED <<rdVars, brwtVars, chainVars, abVars, piVars, dpVars, moreVars>>

\* ---- is_valid on a given CIGAR ----
CigarValidInit ==
    /\ cigar_ \in CigarChoices
    /\ cg_other = <<>>
    /\ cg_appended = <<>>
    /\ cg_call = NoCall
    /\ cg_result = <<>>
    /\ RdIdle /\ BrwtIdle /\ ChainerIdle /\ AbIdle /\ PiIdle /\ DpIdle /\ MoreIdle

CgIsValid ==
    /\ cg_call = NoCall
    /\ \E reference \in ReferenceChoices, query \in QueryChoices, past_end \in {"A", kSentinel} :
        /\ cg_call' = [op |-> "is_valid", reference |-> reference, query |-> query]
        /\ cg_result' = is_valid(cigar_, reference, query, past_end)
    /\ UNCHANGED <<cigar_, cg_other, cg_appended>>
    /\ CgFrame

CigarValidNext == CgIsValid
SpecCigarValid == CigarValidInit /\ [][CigarValidNext]_vars

\* ---- append from the empty CIGAR ----
CigarAppendInit ==
    /\ cigar_ = <<>>
    /\ cg_other = <<>>
    /\ cg_appended = [this |-> NoneAppended, other |-> NoneAppended]
    /\ cg_call = [op |-> "Cigar", calls |-> 0]
    /\ cg_result = <<>>
    /\ RdIdle /\ BrwtIdle /\ ChainerIdle /\ AbIdle /\ PiIdle /\ DpIdle /\ MoreIdle

AppendOps == {"MATCH", "MISMATCH", "INSERTION"}

\* cigar.append(op, num)
CgAppend ==
    /\ cg_call.op \in {"Cigar", "append"}
    /\ cg_call.calls < MaxAppends
    /\ \E op \in AppendOps, num \in 0..MaxOpLength :
        /\ cigar_' = CigarAppend(cigar_, op, num)
        /\ cg_appended' = [cg_appended EXCEPT !.this[op] = @ + num]
    /\ cg_call' = [op |-> "append", calls |-> cg_call.calls + 1]
    /\ UNCHANGED <<cg_other, cg_result>>
    /\ CgFrame

\* other.append(op, num)
CgAppendOther ==
    /\ cg_call.op \in {"Cigar", "append"}
    /\ cg_call.calls < MaxAppends
    /\ \E op \in AppendOps, num \in 0..MaxOpLength :
        /\ cg_other' = CigarAppend(cg_other, op, num)
        /\ cg_appended' = [cg_appended EXCEPT !.other[op] = @ + num]
    /\ cg_call' = [op |-> "append", calls |-> cg_call.calls + 1]
    /\ UNCHANGED <<cigar_, cg_result>>
    /\ CgFrame

\* cigar.append(std::move(other)): the entries of other are read, not removed
CgAppendCigar ==
    /\ cg_call.op \in {"Cigar", "append"}
    /\ cg_call.calls < MaxAppends
    /\ cigar_' = CigarAppendCigar(cigar_, cg_other)
    /\ cg_appended' = [cg_appended EXCEPT
            !.this = [op \in Operators |-> cg_appended.this[op] + cg_appended.other[op]]]
    /\ cg_call' = [op |-> "append", calls |-> cg_call.calls + 1]
    /\ UNCHANGED <<cg_other, cg_result>>
    /\ CgFrame

CigarAppendNext == CgAppend \/ CgAppendOther \/ CgAppendCigar
SpecCigarAppend == CigarAppendInit /\ [][CigarAppendNext]_vars

\* what the entries before entry i have consumed of reference and query, whether
\* or not they could: <<reference offset, query offset>>
RECURSIVE ConsumedBefore(_, _, _, _)
ConsumedBefore(cigar, i, reference, query) ==
    IF i = 1 THEN <<0, 0>>
    ELSE LET at == ConsumedBefore(cigar, i - 1, reference, query)
             op == cigar[i - 1]
             inner == at # <<0, 0>> /\ at # <<Len(reference), Len(query)>>
         IN CASE op[1] \in {"MATCH", "MISMATCH"} -> <<at[1] + op[2], at[2] + op[2]>>
              [] op[1] = "INSERTION" -> <<at[1], at[2] + op[2]>>
              [] op[1] = "DELETION" -> <<at[1] + op[2], at[2]>>
              [] op[1] = "CLIPPED" /\ inner -> <<at[1], at[2] + op[2]>>
              [] OTHER -> at

HasEmptyOp(cigar) == \E i \in 1..Len(cigar) : cigar[i][2] = 0

\* some entry needs more of the reference or of the query than is left
Exhausts(cigar, reference, query) ==
    \E i \in 1..Len(cigar) :
        LET next == ConsumedBefore(cigar, i + 1, reference, query)
        IN next[1] > Len(reference) \/ next[2] > Len(query)

\* a MATCH lies over a position where reference and query differ
MatchOverDifference(cigar, reference, query) ==
    \E i \in 1..Len(cigar) :
        LET at == ConsumedBefore(cigar, i, reference, query)
        IN /\ cigar[i][1] = "MATCH"
           /\ \E k \in 1..cigar[i][2] :
                /\ at[1] + k <= Len(reference)
                /\ at[2] + k <= Len(query)
                /\ reference[at[1] + k] # query[at[2] + k]

InsertionAfterDeletion(cigar) ==
    \E i \in 2..Len(cigar) : cigar[i][1] = "INSERTION" /\ cigar[i - 1][1] = "DELETION"

\* a DELETION follows an INSERTION and the character it deletes first is not the
\* sentinel
DeletionAfterInsertion(cigar, reference, query) ==
    \E i \in 2..Len(cigar) :
        LET at == ConsumedBefore(cigar, i, reference, query)
        IN /\ cigar[i][1] = "DELETION" /\ cigar[i - 1][1] = "INSERTION"
           /\ cigar[i][2] > 0
           /\ at[1] < Len(reference)
           /\ reference[at[1] + 1] # kSentinel

\* C17: is_valid(reference, query) returns false for every CIGAR with an empty
\* entry, with an entry that exhausts the reference or the query, with a MATCH over
\* differing characters, with an INSERTION directly after a DELETION, or with a
\* DELETION directly after an INSERTION whose deleted reference character is not
\* the sentinel.
IsValidRejects ==
    cg_call.op = "is_valid" =>
        ((\/ HasEmptyOp(cigar_)
          \/ Exhausts(cigar_, cg_call.reference, cg_call.query)
          \/ MatchOverDifference(cigar_, cg_call.reference, cg_call.query)
          \/ InsertionAfterDeletion(cigar_)
          \/ DeletionAfterInsertion(cigar_, cg_call.reference, cg_call.query))
         => cg_result = FALSE)

\* is_valid has rejected a CIGAR whose only fault is a DELETION of a character
\* other than the sentinel directly after an INSERTION
DeletionAfterInsertionRejected ==
    /\ cg_call.op = "is_valid"
    /\ cg_result = FALSE
    /\ DeletionAfterInsertion(cigar_, cg_call.reference, cg_call.query)
    /\ ~HasEmptyOp(cigar_)
    /\ ~Exhausts(cigar_, cg_call.reference, cg_call.query)
    /\ ~MatchOverDifference(cigar_, cg_call.reference, cg_call.query)
    /\ ~InsertionAfterDeletion(cigar_)
    /\ ConsumedBefore(cigar_, Len(cigar_) + 1, cg_call.reference, cg_call.query)
            = <<Len(cg_call.reference), Len(cg_call.query)>>

\* is_valid has accepted a DELETION of the sentinel directly after an INSERTION,
\* and an INSERTION after a DELETION with a NODE_INSERTION between them
SentinelDeletionAccepted ==
    /\ cg_call.op = "is_valid"
    /\ cg_result = TRUE
    /\ \E i \in 2..Len(cigar_) : cigar_[i][1] = "DELETION" /\ cigar_[i - 1][1] = "INSERTION"
NodeInsertionBetweenAccepted ==
    /\ cg_call.op = "is_valid"
    /\ cg_result = TRUE
    /\ Len(cigar_) = 3
    /\ cigar_[1][1] = "DELETION" /\ cigar_[2][1] = "NODE_INSERTION" /\ cigar_[3][1] = "INSERTION"

\* the entries of a CIGAR with operator op, summed
RECURSIVE OpTotal(_, _)
OpTotal(cigar, op) ==
    IF cigar = <<>> THEN 0
    ELSE (IF Head(cigar)[1] = op THEN Head(cigar)[2] ELSE 0) + OpTotal(Tail(cigar), op)

RunsCollapsed(cigar) ==
    /\ \A i \in 2..Len(cigar) : cigar[i][1] # cigar[i - 1][1]
    /\ \A i \in 1..Len(cigar) : cigar[i][2] > 0

\* C18: after any sequence of append(op, n) and append(Cigar&&) calls from the
\* empty CIGAR no two adjacent entries have the same operator, and for every
\* operator the lengths of its entries add up to the lengths appended.
AppendCollapsesRuns ==
    cg_call.op = "append" =>
        /\ RunsCollapsed(cigar_)
        /\ RunsCollapsed(cg_other)
        /\ \A op \in Operators :
                /\ OpTotal(cigar_, op) = cg_appended.this[op]
                /\ OpTotal(cg_other, op) = cg_appended.other[op]

\* a CIGAR whose tail had the operator of the other's front has been appended
\* to, and holds fewer entries than were appended
AppendedCigarMerged ==
    /\ cg_call.op = "append"
    /\ Len(cg_other) >= 2
    /\ Len(cigar_) >= 3
    /\ \E k \in 1..Len(cigar_) :
            /\ k + Len(cg_other) - 1 = Len(cigar_)
            /\ cigar_[k][1] = cg_other[1][1]
            /\ cigar_[k][2] > cg_other[1][2]
            /\ SubSeq(cigar_, k + 1, Len(cigar_)) = Tail(cg_other)

(***************************************************************************)
(* chain_seeds: the DP loop on its own, and the reference loop             *)
(***************************************************************************)
\* coord_diff * sl + 0.5 * log2(coord_diff + 1) for sl = 0.03, in 1/10000
GapPenaltyScaled == <<5300, 8525, 10900, 12810, 14425, 15837, 17100, 18250>>
PenaltyScale == 10000

\* cur_score -= linear_penalty + log_penalty on a score_t: the difference is
\* taken in float and converted back, which truncates toward zero
ReferenceScore(cur_score, coord_diff) ==
    IF coord_diff = 0 THEN cur_score
    ELSE LET x == cur_score * PenaltyScale - GapPenaltyScaled[coord_diff]
         IN IF x >= 0 THEN x \div PenaltyScale ELSE -((-x) \div PenaltyScale)

\* the reference loop (#if 0) over the candidates j..last of the predecessor row i
RECURSIVE ChainSeedsRowReference(_, _, _, _)
ChainSeedsRowReference(t, i, j, last) ==
    IF j > last THEN t
    ELSE LET prev == t.dp_table[i]
             cur == t.dp_table[j]
             dist == prev.seed_clipping - cur.seed_clipping
             coord_dist == prev.coordinate - cur.coordinate
             match == Min(Min(dist, coord_dist), cur.seed_end - cur.seed_clipping)
             cur_score == ReferenceScore(prev.chain_score + match, Abs(coord_dist - dist))
         IN IF prev.coordinate - QuerySize > cur.coordinate THEN t
            ELSE IF dist > 0 /\ Max(dist, coord_dist) < QuerySize
                        /\ cur_score >= cur.chain_score
                THEN ChainSeedsRowReference(
                        [dp_table |-> [t.dp_table EXCEPT ![j].chain_score = cur_score],
                         backtrace |-> [t.backtrace EXCEPT ![j] = i]],
                        i, j + 1, last)
                ELSE ChainSeedsRowReference(t, i, j + 1, last)

RECURSIVE ChainSeedsLoopReference(_, _)
ChainSeedsLoopReference(t, i) ==
    IF i > Len(t.dp_table) THEN t
    ELSE IF t.dp_table[i].seed_clipping = 0 THEN ChainSeedsLoopReference(t, i + 1)
    ELSE ChainSeedsLoopReference(
            ChainSeedsRowReference(t, i, i + 1, ItEnd(t.dp_table, i)), i + 1)

\* rows a table can hold: a seed of GraphK characters at <<label, coordinate,
\* clipping>>
DpRowPool ==
    << <<1, 20, 3>>, <<1, 20, 2>>, <<1, 19, 3>>, <<1, 19, 2>>, <<1, 19, 1>>, <<1, 18, 3>>,
       <<1, 18, 2>>, <<1, 18, 1>>, <<1, 17, 2>>, <<1, 17, 0>>, <<1, 15, 1>>, <<1, 13, 2>>,
       <<0, 30, 2>>, <<0, 5, 1>> >>
MaxSmallTable == 3      \* tables of up to this many rows ...
MinLargeTable == 12     \* ... and of at least this many

DpRowOf(k) ==
    [label |-> DpRowPool[k][1], coordinate |-> DpRowPool[k][2],
     seed_clipping |-> DpRowPool[k][3], seed_end |-> DpRowPool[k][3] + GraphK,
     chain_score |-> GraphK, current_seed_index |-> k - 1]

DpTables ==
    UNION { SortTable(SortedSeqOfRows) :
        SortedSeqOfRows \in
            { [n \in 1..Cardinality(S) |->
                    DpRowOf(CHOOSE k \in S : Cardinality({m \in S : m < k}) = n - 1)] :
              S \in { T \in SUBSET (1..Len(DpRowPool)) :
                        /\ T # {}
                        /\ Cardinality(T) <= MaxSmallTable \/ Cardinality(T) >= MinLargeTable } } }

DpInit ==
    /\ dp_in \in [pad : PadChoices]
    /\ \E dp_table \in DpTables :
            dp_cur = [dp_table |-> dp_table, backtrace |-> [j \in 1..Len(dp_table) |-> nid]]
    /\ dp_prev = dp_cur
    /\ dp_i = 1
    /\ RdIdle /\ BrwtIdle /\ ChainerIdle /\ AbIdle /\ PiIdle /\ CgIdle /\ MoreIdle

DpFrame == UNCHANGED <<rdVars, brwtVars, chainVars, abVars, piVars, cgVars, moreVars>>

\* if (!prev_clipping) continue
DpSkip ==
    /\ dp_i >= 1 /\ dp_i <= Len(dp_cur.dp_table)
    /\ dp_cur.dp_table[dp_i].seed_clipping = 0
    /\ dp_prev' = dp_cur
    /\ dp_i' = dp_i + 1
    /\ UNCHANGED <<dp_in, dp_cur>>
    /\ DpFrame

\* one iteration of the loop over the predecessor rows
DpRow ==
    /\ dp_i >= 1 /\ dp_i <= Len(dp_cur.dp_table)
    /\ dp_cur.dp_table[dp_i].seed_clipping # 0
    /\ dp_cur' = ChainSeedsRow(dp_cur, dp_i, dp_i + 1, ItEnd(dp_cur.dp_table, dp_i), dp_in.pad)
    /\ dp_prev' = dp_cur
    /\ dp_i' = dp_i + 1
    /\ UNCHANGED dp_in
    /\ DpFrame

DpNext == DpSkip \/ DpRow
SpecChainSeedsDP == DpInit /\ [][DpNext]_vars

\* the predecessor row of the last step, and what it did to row j
DpLast == dp_i - 1
DpChanged(j) ==
    \/ dp_cur.dp_table[j] # dp_prev.dp_table[j]
    \/ dp_cur.backtrace[j] # dp_prev.backtrace[j]
DpCandidate(j) ==
    /\ j > DpLast
    /\ j <= ItEnd(dp_prev.dp_table, DpLast)
    /\ dp_prev.dp_table[DpLast].seed_clipping # 0
\* the row whose coordinate decides the cutoff of the lane of row j
DpMaskRow(j) ==
    LET lane == (j - DpLast - 1) % 8
    IN j - lane + <<0, 4, 1, 5, 2, 6, 3, 7>>[lane + 1]
DpMaskRowCut(j) ==
    LET r == DpMaskRow(j)
        n == Len(dp_prev.dp_table)
        coordinate == IF r <= n THEN dp_prev.dp_table[r].coordinate
                      ELSE dp_in.pad[Min(r - n, PadRows)]
    IN dp_prev.dp_table[DpLast].coordinate - QuerySize > coordinate
\* dist, coord_dist and the candidate score of row j
DpDist(j) == dp_prev.dp_table[DpLast].seed_clipping - dp_prev.dp_table[j].seed_clipping
DpCoordDist(j) == dp_prev.dp_table[DpLast].coordinate - dp_prev.dp_table[j].coordinate
DpScore(j) ==
    LET cur == dp_prev.dp_table[j]
        match == Min(Min(DpDist(j), DpCoordDist(j)), cur.seed_end - cur.seed_clipping)
    IN dp_prev.dp_table[DpLast].chain_score + match
            - GapPenalty(Abs(DpCoordDist(j) - DpDist(j)))

ChangedRowsAreCandidates ==
    dp_i > 1 => \A j \in 1..Len(dp_cur.dp_table) : DpChanged(j) => DpCandidate(j)

\* a row of the second block of eight has been changed
SecondBlockRowChained ==
    /\ dp_i > 1
    /\ \E j \in 1..Len(dp_cur.dp_table) :
            /\ j >= DpLast + 9
            /\ DpChanged(j)
            /\ dp_cur.dp_table[j].chain_score > dp_prev.dp_table[j].chain_score
RowSkippedByForeignMask ==
    /\ dp_i > 1
    /\ \E j \in 1..Len(dp_cur.dp_table) :
            /\ DpCandidate(j)
            /\ DpDist(j) > 0
            /\ Max(DpDist(j), DpCoordDist(j)) < QuerySize
            /\ DpScore(j) > dp_prev.dp_table[j].chain_score
            /\ DpMaskRow(j) <= Len(dp_cur.dp_table)
            /\ ~DpChanged(j)

\* C20: the vectorized loop and the reference loop give every row the same
\* score.
VectorizedScoresAreReferenceScores ==
    (dp_i > Len(dp_cur.dp_table) /\ dp_cur # <<>>) =>
        LET start == [dp_table |-> [j \in 1..Len(dp_cur.dp_table) |->
                                        [dp_cur.dp_table[j] EXCEPT !.chain_score = GraphK]],
                      backtrace |-> [j \in 1..Len(dp_cur.dp_table) |-> nid]]
            reference == ChainSeedsLoopReference(start, 1)
        IN \A j \in 1..Len(dp_cur.dp_table) :
                dp_cur.dp_table[j].chain_score = reference.dp_table[j].chain_score

(***************************************************************************)
(* chain_alignments: the used marks of the emitted chains                  *)
(***************************************************************************)
\* the anchors of the p-th emitted chain, and the anchor its walk started at
ChainAnchorsOf(p) ==
    { al_callbacks[p].chain[x][1] : x \in 1..Len(al_callbacks[p].chain) }
ChainStartOf(p) == al_callbacks[p].chain[Len(al_callbacks[p].chain)][1]

\* C21 as stated: no anchor is a member of two emitted chains.
NoAnchorInTwoChains ==
    \A p, q \in 1..Len(al_callbacks) :
        p < q => ChainAnchorsOf(p) \cap ChainAnchorsOf(q) = {}

\* C21: the chains are emitted in non-increasing score, every anchor of an
\* emitted chain is marked used, and no emitted chain starts at an anchor of
\* a chain emitted before it.
UsedAnchorStartsNoChain ==
    \A q \in 1..Len(al_callbacks) :
        /\ ChainAnchorsOf(q) \subseteq al_used
        /\ \A p \in 1..(q - 1) :
                /\ ChainStartOf(q) \notin ChainAnchorsOf(p)
                /\ anchors[ChainStartOf(p)].score >= anchors[ChainStartOf(q)].score

\* a later chain passes through an anchor of an earlier one
LaterChainPassesThroughUsedAnchor ==
    \E p, q \in 1..Len(al_callbacks) :
        /\ p < q
        /\ ChainAnchorsOf(p) \cap ChainAnchorsOf(q) # {}
        /\ ChainStartOf(q) \notin ChainAnchorsOf(p)

(***************************************************************************)
(* AnnotationBuffer with coordinates: label_coords_                        *)
(***************************************************************************)
\* a BASIC graph with a MultiIntMatrix: multi_int_ stays set (lines 27-36)
LabelCoordsInit ==
    /\ ab_in \in { [mode |-> "basic", row_batch_size |-> s, rows |-> r, dummy |-> d,
                     unmapped |-> {}, coords |-> TRUE] :
                    s \in {1, 3}, r \in AbRowChoices, d \in {{}, {offset_}} }
    /\ node_to_cols_ = <<>>
    /\ ab_keys = <<>>
    /\ label_coords_ = <<>>
    /\ column_sets_ = << {} >>
    /\ queued_paths_ = <<>>
    /\ ab_fetched = {}
    /\ ab_rounds = 0
    /\ RdIdle
    /\ BrwtIdle
    /\ ChainerIdle
    /\ PiIdle
    /\ CgIdle
    /\ DpIdle
    /\ MoreIdle

SpecLabelCoords == LabelCoordsInit /\ [][AbNext]_vars

\* the position of a node in node_to_cols_ (it - node_to_cols_.begin())
PositionOf(node) == CHOOSE k \in 1..Len(ab_keys) : ab_keys[k] = node

\* the coordinates a node has in the matrix: none for a dummy node
NodeCoords(node) ==
    IF node \in ab_in.dummy THEN <<>> ELSE RowCoords(ab_in, graph_to_anno_index(node))

\* C22: label_coords_ has one entry for each entry of node_to_cols_, and the
\* entry at the position of a node holds the coordinates of that node.
LabelCoordsParallel ==
    ab_in # <<>> =>
        /\ Len(label_coords_) = Len(ab_keys)
        /\ Len(ab_keys) = Cardinality(DOMAIN node_to_cols_)
        /\ \A node \in DOMAIN node_to_cols_ :
                label_coords_[PositionOf(node)] = NodeCoords(node)

\* label_coords_ has one entry for each entry of node_to_cols_
LabelCoordsCounted ==
    ab_in # <<>> =>
        /\ Len(label_coords_) = Len(ab_keys)
        /\ Len(ab_keys) = Cardinality(DOMAIN node_to_cols_)

\* a dummy node queued behind an annotated node has the coordinates of that node
DummyHoldsForeignCoords ==
    /\ ab_in # <<>>
    /\ \E node \in DOMAIN node_to_cols_ :
            /\ node \in ab_in.dummy
            /\ label_coords_[PositionOf(node)] # <<>>

(***************************************************************************)
(* PathIndex::PathIndex: the parallel search for superbubbles              *)
(***************************************************************************)
SbMax == 2147483647      \* std::numeric_limits<uint64_t>::max(), the value of an unwritten cell

\* The unitig graphs: unitigs are numbered from 0, out[u] lists the unitigs
\* behind u in the order of call_outgoing_kmers, length[u] is the length of u.
\* Two bubbles in a chain; a bubble with a bubble on one branch, with the
\* outer source numbered before and after the inner one; a bubble whose
\* branches are dead ends.
SbChain ==
    [n |-> 7,
     out |-> [u \in 0..6 |-> CASE u = 0 -> <<1, 2>> [] u \in {1, 2} -> <<3>>
                               [] u = 3 -> <<4, 5>> [] u \in {4, 5} -> <<6>> [] OTHER -> <<>>],
     length |-> [u \in 0..6 |-> 1]]
SbNested(outer, inner) ==
    [n |-> 7,
     out |-> [u \in 0..6 |-> CASE u = outer -> <<inner, 2>> [] u = inner -> <<3, 4>>
                               [] u \in {3, 4} -> <<5>> [] u \in {2, 5} -> <<6>> [] OTHER -> <<>>],
     length |-> [u \in 0..6 |-> IF u = 2 THEN 3 ELSE 1]]
SbDeadEnds ==
    [n |-> 3,
     out |-> [u \in 0..2 |-> IF u = 0 THEN <<1, 2>> ELSE <<>>],
     length |-> [u \in 0..2 |-> 1]]
SbGraphs == {SbChain, SbNested(0, 1), SbNested(1, 0), SbDeadEnds}

\* call_incoming_kmers: the unitigs in front of u
SbIncoming(g, u) ==
    { v \in 0..(g.n - 1) : \E k \in 1..Len(g.out[v]) : g.out[v][k] = u }

\* seen is a VectorMap: the unitigs in the order they were first seen, each
\* with the set of its distances
SbSeenIndex(seen, u) ==
    IF \E k \in 1..Len(seen) : seen[k].u = u
    THEN CHOOSE k \in 1..Len(seen) : seen[k].u = u ELSE 0
SbSeenAdd(seen, u, d) ==
    IF SbSeenIndex(seen, u) = 0 THEN Append(seen, [u |-> u, ds |-> {d}])
    ELSE [seen EXCEPT ![SbSeenIndex(seen, u)].ds = @ \cup {d}]
SbOneDist(e) == CHOOSE d \in e.ds : TRUE       \* *d.begin() of a set of one distance
SbComplex(seen) == \E k \in 1..Len(seen) : Cardinality(seen[k].ds) # 1

\* the loop of call_outgoing_kmers over the unitigs behind unitig_id (lines
\* 347-378), from the k-th on
RECURSIVE SbChildren(_, _, _, _, _, _)
SbChildren(g, i, tr, unitig_id, dist, k) ==
    IF k > Len(g.out[unitig_id]) \/ tr.has_cycle THEN tr
    ELSE LET next_id == g.out[unitig_id][k]
             d == dist + g.length[unitig_id]
         IN IF next_id = i
            THEN [tr EXCEPT !.has_cycle = TRUE]
            ELSE SbChildren(g, i,
                    [tr EXCEPT
                        !.seen = SbSeenAdd(@, next_id, d),
                        !.traversal_stack =
                            IF SbIncoming(g, next_id) \subseteq tr.visited
                            THEN Append(@, <<next_id, d>>) ELSE @],
                    unitig_id, dist, k + 1)

\* the writes of a superbubble found inside the loop (lines 414-429)
RECURSIVE SbPublishSeen(_, _, _, _)
SbPublishSeen(i, seen, k, is_terminal) ==
    IF k > Len(seen) THEN <<>>
    ELSE (IF is_terminal THEN <<>> ELSE << [op |-> "reach", u |-> seen[k].u, bit |-> TRUE] >>)
         \o (IF seen[k].u = i THEN <<>>
             ELSE << [op |-> "min", u |-> seen[k].u, d |-> SbOneDist(seen[k])] >>)
         \o SbPublishSeen(i, seen, k + 1, is_terminal)

\* the unitigs found by the walk back from the terminus along parents (lines
\* 452-466); parents[u] holds the unitigs in front of u
RECURSIVE SbFound(_, _, _)
SbFound(g, i, stack) ==
    IF stack = {} THEN {}
    ELSE LET cur_id == CHOOSE u \in stack : TRUE
             up == IF cur_id = i THEN {} ELSE SbIncoming(g, cur_id)
         IN {cur_id} \cup SbFound(g, i, (stack \ {cur_id}) \cup up)

\* the while loop over traversal_stack (lines 337-431)
RECURSIVE SbSearch(_, _, _)
SbSearch(g, i, tr) ==
    IF tr.traversal_stack = <<>> THEN tr
    ELSE LET top == tr.traversal_stack[Len(tr.traversal_stack)]
             unitig_id == top[1]
             t1 == SbChildren(g, i,
                        [tr EXCEPT !.traversal_stack = SubSeq(@, 1, Len(@) - 1),
                                   !.visited = @ \cup {unitig_id},
                                   !.has_cycle = FALSE],
                        unitig_id, top[2], 1)
             t2 == IF g.out[unitig_id] = <<>> THEN [t1 EXCEPT !.is_terminal = TRUE] ELSE t1
         IN IF t1.has_cycle THEN [t1 EXCEPT !.is_terminal = FALSE]
            ELSE IF Len(t2.traversal_stack) = 1
                        /\ Cardinality(t2.visited) + 1 = Len(t2.seen)
            THEN LET last == t2.traversal_stack[1]
                     is_cycle == \E k \in 1..Len(g.out[last[1]]) : g.out[last[1]][k] = i
                     t3 == [t2 EXCEPT !.traversal_stack = <<>>]
                 IN IF is_cycle THEN [t3 EXCEPT !.is_terminal = FALSE]
                    ELSE IF SbComplex(t3.seen) THEN t3
                    ELSE [t3 EXCEPT
                            !.terminus = last[1],
                            !.term_dist = last[2],
                            !.writes = @ \o << [op |-> "start"] >>
                                \o SbPublishSeen(i, t3.seen, 1, t3.is_terminal)
                                \o << [op |-> "terminus", u |-> last[1] + 1],
                                      [op |-> "term_dist", d |-> last[2]] >>]
            ELSE SbSearch(g, i, t2)

\* one iteration of the parallel loop (lines 326-479) up to its writes to the
\* shared tables: the search, and the writes of a superbubble with dead ends
SbIteration(g, i) ==
    LET tr == SbSearch(g, i,
                [traversal_stack |-> << <<i, 0>> >>, visited |-> {},
                 seen |-> << [u |-> i, ds |-> {0}] >>, has_cycle |-> FALSE,
                 is_terminal |-> FALSE, terminus |-> 0, term_dist |-> 0, writes |-> <<>>])
        found == SbFound(g, i, {tr.terminus})
    IN IF tr.is_terminal /\ Len(tr.seen) > 1 /\ ~SbComplex(tr.seen)
       THEN tr.writes \o << [op |-> "start"] >>
            \o SbPublishSeen(i, tr.seen, 1, TRUE)
            \o (IF tr.terminus = 0 THEN <<>>
                ELSE [k \in 1..Len(tr.seen) |->
                        [op |-> "reach", u |-> tr.seen[k].u, bit |-> tr.seen[k].u \in found]]
                     \o << [op |-> "terminus", u |-> tr.terminus + 1],
                           [op |-> "term_dist", d |-> tr.term_dist] >>)
       ELSE tr.writes

SbUnitigs == 0..(sb_graph.n - 1)
SbFrame == UNCHANGED <<rdVars, brwtVars, chainVars, abVars, piVars, cgVars, dpVars, cfVars,
                       utVars>>

\* the tables before the parallel loop (lines 296-311)
SbInit ==
    /\ sb_graph \in SbGraphs
    /\ sb_phase = "build"
    /\ sb_threads = [i \in 0..(sb_graph.n - 1) |->
            [pc |-> "search", writes |-> <<>>, k |-> 0, improved |-> FALSE, word |-> <<>>]]
    /\ superbubble_starts = [c \in 0..(2 * sb_graph.n - 1) |-> SbMax]
    /\ superbubble_termini = [c \in 0..(2 * sb_graph.n - 1) |-> SbMax]
    /\ is_superbubble_start = [u \in 0..(sb_graph.n - 1) |-> FALSE]
    /\ can_reach_terminus = [u \in 0..(sb_graph.n - 1) |-> FALSE]
    /\ RdIdle /\ BrwtIdle /\ ChainerIdle /\ AbIdle /\ PiIdle /\ CgIdle /\ DpIdle /\ CfIdle
    /\ UtIdle

\* iteration i has finished the write it was at
SbAdvance(i) ==
    LET t == sb_threads[i]
    IN [sb_threads EXCEPT ![i] =
            [t EXCEPT !.k = t.k + 1, !.improved = FALSE, !.word = <<>>,
                      !.pc = IF t.k + 1 > Len(t.writes) THEN "done" ELSE "write"]]

SbWrite(i) == sb_threads[i].writes[sb_threads[i].k]
SbAt(i, op) == sb_threads[i].pc = "write" /\ SbWrite(i).op = op

\* the search of iteration i on its own containers; it touches no shared
\* table, so the searches are taken in the order of the iterations
SbSearchStepAt(i) ==
    /\ sb_phase = "build"
    /\ sb_threads[i].pc = "search"
    /\ \A h \in 0..(i - 1) : sb_threads[h].pc # "search"
    /\ LET writes == SbIteration(sb_graph, i)
       IN sb_threads' = [sb_threads EXCEPT ![i] =
                [pc |-> IF writes = <<>> THEN "done" ELSE "write", writes |-> writes,
                 k |-> 1, improved |-> FALSE, word |-> <<>>]]
    /\ UNCHANGED <<sb_graph, sb_phase, superbubble_starts, superbubble_termini,
                   is_superbubble_start, can_reach_terminus>>
    /\ SbFrame

\* set_bit(is_superbubble_start.data(), i, true, MO_RELAXED)
SbSetStartAt(i) ==
    /\ SbAt(i, "start")
    /\ is_superbubble_start' = [is_superbubble_start EXCEPT ![i] = TRUE]
    /\ sb_threads' = SbAdvance(i)
    /\ UNCHANGED <<sb_graph, sb_phase, superbubble_starts, superbubble_termini,
                   can_reach_terminus>>
    /\ SbFrame

\* can_reach_terminus[u_id] = bit on an sdsl::bit_vector: the word of the bit
\* is read ...
SbLoadWordAt(i) ==
    /\ SbAt(i, "reach")
    /\ sb_threads[i].word = <<>>
    /\ sb_threads' = [sb_threads EXCEPT ![i].word = can_reach_terminus]
    /\ UNCHANGED <<sb_graph, sb_phase, superbubble_starts, superbubble_termini,
                   is_superbubble_start, can_reach_terminus>>
    /\ SbFrame

\* ... and written back with the bit changed
SbStoreWordAt(i) ==
    /\ SbAt(i, "reach")
    /\ sb_threads[i].word # <<>>
    /\ can_reach_terminus' = [sb_threads[i].word EXCEPT ![SbWrite(i).u] = SbWrite(i).bit]
    /\ sb_threads' = SbAdvance(i)
    /\ UNCHANGED <<sb_graph, sb_phase, superbubble_starts, superbubble_termini,
                   is_superbubble_start>>
    /\ SbFrame

\* atomic_min(superbubble_starts, u_id * 2 + 1, d) under the mutex (lines
\* 314-319); the source follows when the old distance was greater
SbMinDistAt(i) ==
    /\ SbAt(i, "min")
    /\ ~sb_threads[i].improved
    /\ LET c == 2 * SbWrite(i).u + 1
           old_val == superbubble_starts[c]
       IN /\ superbubble_starts' = [superbubble_starts EXCEPT ![c] = Min(old_val, SbWrite(i).d)]
          /\ sb_threads' = IF old_val > SbWrite(i).d
                           THEN [sb_threads EXCEPT ![i].improved = TRUE]
                           ELSE SbAdvance(i)
    /\ UNCHANGED <<sb_graph, sb_phase, superbubble_termini, is_superbubble_start,
                   can_reach_terminus>>
    /\ SbFrame

\* atomic_min(superbubble_starts, u_id * 2, i + 1)
SbMinSourceAt(i) ==
    /\ SbAt(i, "min")
    /\ sb_threads[i].improved
    /\ superbubble_starts' = [superbubble_starts EXCEPT ![2 * SbWrite(i).u] = Min(@, i + 1)]
    /\ sb_threads' = SbAdvance(i)
    /\ UNCHANGED <<sb_graph, sb_phase, superbubble_termini, is_superbubble_start,
                   can_reach_terminus>>
    /\ SbFrame

\* atomic_exchange(superbubble_termini, i * 2, terminus + 1) under the mutex
SbSetTerminusAt(i) ==
    /\ SbAt(i, "terminus")
    /\ superbubble_termini' = [superbubble_termini EXCEPT ![2 * i] = SbWrite(i).u]
    /\ sb_threads' = SbAdvance(i)
    /\ UNCHANGED <<sb_graph, sb_phase, superbubble_starts, is_superbubble_start,
                   can_reach_terminus>>
    /\ SbFrame

\* atomic_exchange(superbubble_termini, i * 2 + 1, term_dist): a second call,
\* which takes the mutex again; other iterations run in between
SbSetTermDistAt(i) ==
    /\ SbAt(i, "term_dist")
    /\ superbubble_termini' = [superbubble_termini EXCEPT ![2 * i + 1] = SbWrite(i).d]
    /\ sb_threads' = SbAdvance(i)
    /\ UNCHANGED <<sb_graph, sb_phase, superbubble_starts, is_superbubble_start,
                   can_reach_terminus>>
    /\ SbFrame

\* after the loop: the cells never written become 0 (lines 481-490)
SbFinish ==
    /\ sb_phase = "build"
    /\ \A i \in SbUnitigs : sb_threads[i].pc = "done"
    /\ sb_phase' = "built"
    /\ superbubble_starts' = [c \in DOMAIN superbubble_starts |->
            IF superbubble_starts[c] = SbMax THEN 0 ELSE superbubble_starts[c]]
    /\ superbubble_termini' = [c \in DOMAIN superbubble_termini |->
            IF superbubble_termini[c] = SbMax THEN 0 ELSE superbubble_termini[c]]
    /\ UNCHANGED <<sb_graph, sb_threads, is_superbubble_start, can_reach_terminus>>
    /\ SbFrame

SbSearchStep == \E i \in SbUnitigs : SbSearchStepAt(i)
SbSetStart == \E i \in SbUnitigs : SbSetStartAt(i)
SbLoadWord == \E i \in SbUnitigs : SbLoadWordAt(i)
SbStoreWord == \E i \in SbUnitigs : SbStoreWordAt(i)
SbMinDist == \E i \in SbUnitigs : SbMinDistAt(i)
SbMinSource == \E i \in SbUnitigs : SbMinSourceAt(i)
SbSetTerminus == \E i \in SbUnitigs : SbSetTerminusAt(i)
SbSetTermDist == \E i \in SbUnitigs : SbSetTermDistAt(i)

SbNext ==
    \/ SbSearchStep \/ SbSetStart \/ SbLoadWord \/ SbStoreWord
    \/ SbMinDist \/ SbMinSource \/ SbSetTerminus \/ SbSetTermDist \/ SbFinish

SpecSuperbubbleBuild == SbInit /\ [][SbNext]_vars

\* the distances iteration i has for unitig u (the unitigs it has seen)
SbDistsFrom(i, u) ==
    { sb_threads[i].writes[k].d : k \in { x \in 1..Len(sb_threads[i].writes) :
            sb_threads[i].writes[x].op = "min" /\ sb_threads[i].writes[x].u = u } }
SbSourcesOf(u) == { i \in SbUnitigs : SbDistsFrom(i, u) # {} }

\* the flags of a build that runs the iterations one after the other
RECURSIVE SbReachAfter(_, _, _)
SbReachAfter(bits, writes, k) ==
    IF k > Len(writes) THEN bits
    ELSE SbReachAfter(IF writes[k].op = "reach"
                      THEN [bits EXCEPT ![writes[k].u] = writes[k].bit] ELSE bits,
                      writes, k + 1)
RECURSIVE SbSequentialReach(_, _)
SbSequentialReach(bits, i) ==
    IF i >= sb_graph.n THEN bits
    ELSE SbSequentialReach(SbReachAfter(bits, sb_threads[i].writes, 1), i + 1)

\* the recorded distance of a unitig is the smallest distance any source has
\* for it
RecordedDistanceIsMinimum ==
    sb_phase = "built" =>
        \A u \in SbUnitigs :
            IF SbSourcesOf(u) = {} THEN superbubble_starts[2 * u + 1] = 0
            ELSE /\ \E i \in SbSourcesOf(u) : superbubble_starts[2 * u + 1] \in SbDistsFrom(i, u)
                 /\ \A i \in SbSourcesOf(u) : \A d \in SbDistsFrom(i, u) :
                        superbubble_starts[2 * u + 1] <= d

\* C23: after the build, for every interleaving, the recorded distance of a
\* unitig is its distance from its recorded source and the smallest distance
\* from any source, and the can-reach-terminus flags are those of a build
\* that runs the iterations one after the other.
BuildIsScheduleIndependent ==
    sb_phase = "built" =>
        /\ \A u \in SbUnitigs :
                superbubble_starts[2 * u] # 0 =>
                    superbubble_starts[2 * u + 1]
                        \in SbDistsFrom(superbubble_starts[2 * u] - 1, u)
        /\ RecordedDistanceIsMinimum
        /\ can_reach_terminus =
                SbSequentialReach([u \in SbUnitigs |-> FALSE], 0)

\* a unitig is recorded with one source and the distance from another
SourceWithForeignDistance ==
    /\ sb_phase = "built"
    /\ \E u \in SbUnitigs :
            /\ superbubble_starts[2 * u] # 0
            /\ superbubble_starts[2 * u + 1]
                    \notin SbDistsFrom(superbubble_starts[2 * u] - 1, u)

\* a flag set by one iteration has been overwritten by another
ReachFlagLost ==
    /\ sb_phase = "built"
    /\ can_reach_terminus # SbSequentialReach([u \in SbUnitigs |-> FALSE], 0)

(***************************************************************************)
(* BRWT::get_rows / slice_rows: the order of the columns inside a row      *)
(***************************************************************************)
StrictlyAscending(s) == \A k \in 1..(Len(s) - 1) : s[k] < s[k + 1]

\* the sentinel-delimited segments of a slice, in order
RECURSIVE SliceSegments(_, _)
SliceSegments(slice, from) ==
    IF from > Len(slice) THEN <<>>
    ELSE LET end == CHOOSE e \in from..Len(slice) :
                        /\ slice[e] = Delim
                        /\ \A k \in from..(e - 1) : slice[k] # Delim
         IN <<SubSeq(slice, from, end - 1)>> \o SliceSegments(slice, end + 1)

\* C24: every row returned by get_rows, and every sentinel-delimited segment of
\* the slice slice_rows returns for the same ids, lists its global column ids in
\* strictly ascending order, whatever the assignment of columns to children.
BrwtRowsSorted ==
    brwt_call.op = "get_rows" =>
        /\ \A i \in 1..Len(brwt_result) : StrictlyAscending(brwt_result[i])
        /\ LET segs == SliceSegments(BrwtSliceRows(brwt_root, brwt_call.row_ids), 1)
           IN \A i \in 1..Len(segs) : StrictlyAscending(segs[i])

\* what does hold: a returned row has no column twice
BrwtRowsDuplicateFree ==
    brwt_call.op = "get_rows" =>
        \A i \in 1..Len(brwt_result) :
            \A a, b \in 1..Len(brwt_result[i]) :
                a # b => brwt_result[i][a] # brwt_result[i][b]

\* a row came back with the columns of a lower-index child after higher ones
BrwtRowInChildOrder ==
    /\ brwt_call.op = "get_rows"
    /\ \E i \in 1..Len(brwt_result) :
        /\ Len(brwt_result[i]) > 1
        /\ ~StrictlyAscending(brwt_result[i])

(***************************************************************************)
(* chain_and_filter_seeds: the emission of the chains                      *)
(***************************************************************************)
CfNumCols == 3             \* label columns of the seeds
CfMaxRun == 3              \* seeds of the longest run of one column
NoAnchor == 0              \* "no predecessor": anchors are numbered from 1
NumAlternativePaths == 1   \* config_.num_alternative_paths

\* config_.rel_score_cutoff, as a fraction
RelScoreCutoffChoices == {[num |-> 0, den |-> 1], [num |-> 9, den |-> 10]}
MinSeedLengthChoices == {2, 3}

\* the seeds of a column: n seeds of k characters, one node each, on consecutive
\* nodes of one path, the first at query position `begin`
CfRunChoices ==
    {r \in [begin : {0, 1}, n : 0..CfMaxRun] :
        /\ r.n = 0 => r.begin = 0
        /\ r.begin + r.n - 1 + GraphK <= QuerySize}

\* the keys (end, col, begin) of the anchors, one per seed
CfAnchorKeys(runs) ==
    {<<runs[c].begin + t + GraphK, c, runs[c].begin + t>> :
        c \in 0..(CfNumCols - 1), t \in 0..(CfMaxRun - 1)}
    \cap {key \in (0..QuerySize) \X (0..(CfNumCols - 1)) \X (0..QuerySize) :
            key[3] - runs[key[2]].begin < runs[key[2]].n}

\* std::tie(a.end, a.col, a.begin) < std::tie(b.end, b.col, b.begin)
CfKeyLess(a, b) ==
    \/ a[1] < b[1]
    \/ a[1] = b[1] /\ a[2] < b[2]
    \/ a[1] = b[1] /\ a[2] = b[2] /\ a[3] < b[3]

RECURSIVE CfSortKeys(_)
CfSortKeys(keys) ==
    IF keys = {} THEN <<>>
    ELSE LET first == CHOOSE a \in keys : \A b \in keys \ {a} : CfKeyLess(a, b)
         IN <<first>> \o CfSortKeys(keys \ {first})

\* lines 596-873: the sorted anchors after the DP, without jumps and label
\* changes. An anchor starts with score = mem_length = end - begin, no
\* predecessor and last_dist = its clipping; anchors of different columns are
\* not chained (line 706); the anchor of a seed is updated by the anchor of the
\* seed one node before it on the path (lines 761-775: dist = num_added = 1,
\* no gap): score and mem_length one more than the predecessor's, last_dist 1.
CfAnchors(runs) ==
    LET keys == Built(CfSortKeys(CfAnchorKeys(runs)))
        IndexOf(key) == CHOOSE i \in 1..Len(keys) : keys[i] = key
    IN [i \in 1..Len(keys) |->
            LET key == keys[i]
                t == key[3] - runs[key[2]].begin
            IN [end |-> key[1], col |-> key[2], begin |-> key[3],
                score |-> GraphK + t,
                last |-> IF t = 0 THEN NoAnchor ELSE IndexOf(<<key[1] - 1, key[2], key[3] - 1>>),
                last_dist |-> IF t = 0 THEN key[3] ELSE 1,
                mem_length |-> GraphK + t]]

\* operator< on std::tuple<score_t, size_t, size_t>
BestChainTupleLess(a, b) ==
    \/ a.nscore < b.nscore
    \/ a.nscore = b.nscore /\ a.last_dist < b.last_dist
    \/ a.nscore = b.nscore /\ a.last_dist = b.last_dist /\ a.k < b.k

RECURSIVE CfSortBest(_)
CfSortBest(entries) ==
    IF entries = {} THEN <<>>
    ELSE LET first == CHOOSE a \in entries : \A b \in entries \ {a} : BestChainTupleLess(a, b)
         IN <<first>> \o CfSortBest(entries \ {first})

\* lines 877-889: the starts with a full node, best first, cut where
\* nscore / best nscore falls below rel_score_cutoff
BestChain(anchs, rel_score_cutoff) ==
    LET sorted == Built(CfSortBest({[nscore |-> -anchs[i].score, last_dist |-> anchs[i].last_dist,
                                      k |-> i] :
                                        i \in {k \in 1..Len(anchs) : anchs[k].mem_length >= GraphK}}))
        Below(a) == (-a.nscore) * rel_score_cutoff.den < rel_score_cutoff.num * (-sorted[1].nscore)
        cut == {i \in 1..Len(sorted) : Below(sorted[i])}
    IN IF cut = {} THEN sorted
       ELSE SubSeq(sorted, 1, (CHOOSE i \in cut : \A m \in cut : i <= m) - 1)

\* lines 1013-1039: the walk along the backpointers from anchor k; every
\* anchor on the way is marked used and gives one seed labelled with the
\* column of the start
RECURSIVE CfWalk(_, _, _)
CfWalk(k, col, acc) ==
    IF k = NoAnchor THEN acc
    ELSE LET a_k == cf_tables.anchors[k]
         IN CfWalk(a_k.last, col,
                [used |-> acc.used \cup {k},
                 seed_chain |-> Append(acc.seed_chain,
                    [first |-> SeedAt(a_k.begin, a_k.end - a_k.begin, 0, {col}),
                     second |-> a_k.last_dist])])

RECURSIVE SumSeconds(_, _)
SumSeconds(sc, i) == IF i > Len(sc) THEN 0 ELSE sc[i].second + SumSeconds(sc, i + 1)

\* lines 1049-1051: it->second += (it - 1)->second from the back
CfAccumulate(sc) ==
    [i \in 1..Len(sc) |->
        [sc[i] EXCEPT !.second = SumSeconds(sc, i)]]

\* lines 1053-1063: a seed one node after the next seed of the chain is
\* folded into it
RECURSIVE CfMergeSeeds(_, _)
CfMergeSeeds(sc, i) ==
    IF i + 1 > Len(sc) THEN sc
    ELSE IF /\ sc[i].first.clipping - sc[i + 1].first.clipping = 1
            /\ sc[i].second - sc[i + 1].second = 1
            /\ sc[i].first.labels = sc[i + 1].first.labels
         THEN CfMergeSeeds([sc EXCEPT ![i + 1].first = Expand(@, sc[i].first.nodes),
                                      ![i].first = EmptySeed], i + 1)
         ELSE CfMergeSeeds(sc, i + 1)

\* lines 1065-1078: the chain, first seed of the query first, with the
\* distances between the ends of its seeds
CfChain(sc) ==
    LET kept == SelectSeq(sc, LAMBDA a : a.first.nodes # <<>>)
        n == Len(kept)
    IN [i \in 1..n |->
            LET it == kept[n + 1 - i]
            IN [first |-> it.first,
                second |-> IF i = 1 THEN 0
                           ELSE it.second + it.first.size
                                - kept[n + 2 - i].second - kept[n + 2 - i].first.size]]

\* lines 1043-1046: a lone seed of the minimum length that does not span the query
CfLoneSeed(sc) ==
    /\ Len(sc) = 1
    /\ sc[1].first.size = cf_in.min_seed_length
    /\ (sc[1].first.clipping # 0 \/ sc[1].first.end_clipping # 0)

\* lines 947-998: flush_chains over the groups of equal chains, in the order
\* `order` of the multiset
RECURSIVE CfFlushGroups(_, _)
CfFlushGroups(order, acc) ==
    IF order = <<>> THEN [acc EXCEPT !.chains = <<>>]
    ELSE LET group == SelectSeq(cf_chains, LAMBDA c : ChainKey(c) = Head(order))
             last_chain == MergeChains(Head(group), Tail(group))
         IN IF CoverageBelow(last_chain, cf_in.min_exact_match)
                THEN [acc EXCEPT !.coverage_too_low = TRUE]
                ELSE CfFlushGroups(Tail(order),
                        [acc EXCEPT !.callbacks =
                            Append(@, [chain |-> last_chain, score |-> cf_last_chain_score])])

CfFlushChains(order) ==
    LET acc == [callbacks |-> cf_callbacks, coverage_too_low |-> cf_coverage_too_low,
                chains |-> cf_chains]
    IN IF cf_coverage_too_low THEN acc ELSE CfFlushGroups(order, acc)

CfOrders == Orders({ChainKey(cf_chains[i]) : i \in 1..Len(cf_chains)})

CfFrame == UNCHANGED <<rdVars, brwtVars, chainVars, abVars, piVars, cgVars, dpVars, sbVars,
                       utVars>>

CfInit ==
    /\ cf_in \in [runs : [0..(CfNumCols - 1) -> CfRunChoices],
                  min_exact_match : MinExactMatchChoices,
                  rel_score_cutoff : RelScoreCutoffChoices,
                  min_seed_length : MinSeedLengthChoices]
    /\ cf_pc = "start"
    /\ cf_tables = <<>>
    /\ cf_j = 0
    /\ cf_used = {}
    /\ cf_used_cols = <<>>
    /\ cf_chains = <<>>
    /\ cf_last_chain_score = ScoreMin
    /\ cf_coverage_too_low = FALSE
    /\ cf_callbacks = <<>>
    /\ RdIdle /\ BrwtIdle /\ ChainerIdle /\ AbIdle /\ PiIdle /\ CgIdle /\ DpIdle /\ SbIdle
    /\ UtIdle

\* lines 546-887: the anchors, the DP and the sorted starts
CfEnter ==
    /\ cf_pc = "start"
    /\ LET anchs == CfAnchors(cf_in.runs)
       IN IF anchs = <<>>
            THEN /\ cf_pc' = "done"
                 /\ UNCHANGED <<cf_tables, cf_j, cf_used_cols>>
            ELSE /\ cf_pc' = "loop"
                 /\ cf_tables' = [anchors |-> anchs,
                                  best_chain |-> BestChain(anchs, cf_in.rel_score_cutoff)]
                 /\ cf_j' = 1
                 /\ cf_used_cols' = [c \in 0..(CfNumCols - 1) |-> 0]
    /\ UNCHANGED <<cf_in, cf_used, cf_chains, cf_last_chain_score, cf_coverage_too_low,
                   cf_callbacks>>
    /\ CfFrame

\* one iteration of the loop over best_chain (lines 1000-1093)
CfIterate ==
    /\ cf_pc = "loop"
    /\ cf_j <= Len(cf_tables.best_chain)
    /\ ~cf_coverage_too_low
    /\ LET e == cf_tables.best_chain[cf_j]
           col == cf_tables.anchors[e.k].col
           w == CfWalk(e.k, col, [used |-> cf_used, seed_chain |-> <<>>])
           chain == Built(CfChain(CfMergeSeeds(CfAccumulate(w.seed_chain), 1)))
       IN IF e.k \in cf_used
            THEN UNCHANGED <<cf_used, cf_used_cols, cf_chains, cf_last_chain_score,
                             cf_coverage_too_low, cf_callbacks>>
          ELSE /\ cf_used_cols' = [cf_used_cols EXCEPT ![col] = @ + 1]
               /\ IF cf_used_cols[col] + 1 > NumAlternativePaths
                    THEN UNCHANGED <<cf_used, cf_chains, cf_last_chain_score,
                                     cf_coverage_too_low, cf_callbacks>>
                  ELSE /\ cf_used' = w.used
                       /\ IF CfLoneSeed(w.seed_chain)
                            THEN UNCHANGED <<cf_chains, cf_last_chain_score,
                                             cf_coverage_too_low, cf_callbacks>>
                          ELSE IF cf_chains = <<>>
                            THEN /\ cf_last_chain_score' = -e.nscore
                                 /\ cf_chains' = <<chain>>
                                 /\ UNCHANGED <<cf_coverage_too_low, cf_callbacks>>
                          ELSE IF -e.nscore = cf_last_chain_score
                            THEN /\ cf_chains' = Append(cf_chains, chain)
                                 /\ UNCHANGED <<cf_last_chain_score, cf_coverage_too_low,
                                                cf_callbacks>>
                          ELSE \E order \in CfOrders :
                                LET f == CfFlushChains(order)
                                IN /\ cf_callbacks' = f.callbacks
                                   /\ cf_coverage_too_low' = f.coverage_too_low
                                   /\ cf_chains' = Append(f.chains, chain)
                                   /\ UNCHANGED cf_last_chain_score
    /\ cf_j' = cf_j + 1
    /\ UNCHANGED <<cf_in, cf_pc, cf_tables>>
    /\ CfFrame

\* lines 1095-1096: if (chains.size()) flush_chains()
CfFinalFlush ==
    /\ IF cf_chains = <<>>
        THEN UNCHANGED <<cf_chains, cf_coverage_too_low, cf_callbacks>>
        ELSE \E order \in CfOrders :
                LET f == CfFlushChains(order)
                IN /\ cf_callbacks' = f.callbacks
                   /\ cf_coverage_too_low' = f.coverage_too_low
                   /\ cf_chains' = f.chains
    /\ cf_pc' = "done"
    /\ UNCHANGED <<cf_in, cf_tables, cf_j, cf_used, cf_used_cols, cf_last_chain_score>>
    /\ CfFrame

\* lines 1001-1002: the loop is left because coverage_too_low is set
CfBreak ==
    /\ cf_pc = "loop"
    /\ cf_j <= Len(cf_tables.best_chain)
    /\ cf_coverage_too_low
    /\ CfFinalFlush

\* the loop has gone through best_chain
CfExhausted ==
    /\ cf_pc = "loop"
    /\ cf_j > Len(cf_tables.best_chain)
    /\ CfFinalFlush

CfNext == CfEnter \/ CfIterate \/ CfBreak \/ CfExhausted

SpecChainAndFilter == CfInit /\ [][CfNext]_vars

\* the anchor a delivered chain was started at: the anchor of the chain's
\* column that ends where the chain's last seed ends
CfStartOf(chain) ==
    LET seed == chain[Len(chain)].first
    IN CHOOSE k \in 1..Len(cf_tables.anchors) :
            /\ cf_tables.anchors[k].end = seed.clipping + seed.size
            /\ cf_tables.anchors[k].col \in seed.labels

\* C25: every chain passed to the callback comes with the score the DP gave to
\* the anchor the chain starts at.
CallbackScoreIsChainScore ==
    \A i \in 1..Len(cf_callbacks) :
        cf_callbacks[i].score = cf_tables.anchors[CfStartOf(cf_callbacks[i].chain)].score

\* what does hold: the chains of the first group come with their own score, and
\* no chain comes with a score below its own
FirstGroupScoreIsChainScore ==
    \A i \in 1..Len(cf_callbacks) :
        LET own == cf_tables.anchors[CfStartOf(cf_callbacks[i].chain)].score
        IN /\ cf_callbacks[i].score >= own
           /\ own = -cf_tables.best_chain[1].nscore => cf_callbacks[i].score = own

\* a chain was delivered with the score of the group flushed before it
ChainDeliveredWithStaleScore ==
    \E i, m \in 1..Len(cf_callbacks) :
        /\ i < m
        /\ cf_callbacks[i].score = cf_tables.anchors[CfStartOf(cf_callbacks[i].chain)].score
        /\ cf_callbacks[m].score = cf_callbacks[i].score
        /\ cf_tables.anchors[CfStartOf(cf_callbacks[m].chain)].score < cf_callbacks[m].score

(***************************************************************************)
(* call_seed_chains_both_strands: the flush after the loop                 *)
(***************************************************************************)
\* C26: flush_chains is invoked only with a chain pending: the loop over the
\* starts is never left for the flush of line 336 with an empty chains.
FlushOnlyWithPendingChain ==
    [][(sc_pc = "loop" /\ sc_pc' # "loop") => chains # <<>>]_vars

\* a flush inside the loop always has a chain pending
LoopFlushHasPendingChain ==
    [][(sc_pc = "loop" /\ sc_pc' = "loop" /\ sc_callbacks' # sc_callbacks) => chains # <<>>]_vars

\* terminate() returned true before a chain was collected and the flush ran
\* into the assertion
EmptyFlushAfterTerminate ==
    /\ sc_pc = "crashed"
    /\ sc_terminated
    /\ sc_collected = {}

\* every start was used or rejected and the flush handed a chain read from the
\* empty multiset to the callback
EmptyFlushAfterLastStart ==
    /\ sc_pc = "done"
    /\ ~sc_terminated
    /\ sc_tables # <<>>
    /\ sc_next > Len(sc_tables.starts)
    /\ sc_collected = {}
    /\ \E i \in 1..Len(sc_callbacks) : sc_callbacks[i].chain \in GarbageChains

(***************************************************************************)
(* chain_alignments: termination                                           *)
(***************************************************************************)
\* where the function is: every step of it moves this position
AlPosition == <<al_pc, al_i, al_j>>

\* a move of the position of a function that has not returned
AlMoves ==
    /\ al_pc \in {"start", "forward", "backtrack"}
    /\ al_pc' \in {"forward", "backtrack", "done"}
    /\ al_i' \in 0..(Len(anchors) + 1)
    /\ al_j' \in 0..(Len(anchors) + 1)

\* chain_alignments is one sequential function run by one thread: as long as
\* it has not returned, its next step is taken
SpecChainAlignmentsFair == AlInit /\ [][AlNext]_vars /\ WF_AlPosition(AlMoves)

\* the walk of lines 1478-1490 from anchor k reaches "no predecessor" within
\* `fuel` steps
RECURSIVE WalkEnds(_, _, _, _)
WalkEnds(as, k, in_jump, fuel) ==
    IF k = nid THEN TRUE
    ELSE IF fuel = 0 THEN FALSE
    ELSE LET a_k == as[k]
             entered == in_jump \/ (a_k.score = a_k.score_with_jump
                                        /\ a_k.last_with_jump = a_k.last)
             next == IF entered THEN a_k.last_with_jump ELSE a_k.last
             left == entered /\ a_k.mem_length_with_jump # a_k.end - a_k.begin
         IN WalkEnds(as, next, left, fuel - 1)

\* a walk visits an anchor at most once in each of its two modes
BackpointersEnd ==
    al_pc \in {"forward", "backtrack", "done"} =>
        \A k \in 1..Len(anchors) : WalkEnds(anchors, k, FALSE, 2 * Len(anchors))

\* C27: chain_alignments returns for every input: the forward pass with its
\* rewinding ends, and the walks along last and last_with_jump always end.
ChainAlignmentsTerminates == <>(al_pc = "done") /\ []BackpointersEnd

\* the function has returned after a forward pass that went back: an anchor
\* was updated from an anchor behind it in the order, and a chain was emitted
ReturnedAfterRewind ==
    /\ al_pc = "done"
    /\ al_callbacks # <<>>
    /\ \E j \in 1..Len(anchors) :
        \/ anchors[j].last # nid /\ anchors[j].last > j
        \/ anchors[j].last_with_jump # nid /\ anchors[j].last_with_jump > j

(***************************************************************************)
(* Cigar: to_string and the constructor from a string                      *)
(***************************************************************************)
\* a string is the sequence of its characters
DigitChars == <<"0", "1", "2", "3", "4", "5", "6", "7", "8", "9">>

\* Cigar::opt_to_char
opt_to_char(op) ==
    CASE op = "MATCH" -> "="
      [] op = "MISMATCH" -> "X"
      [] op = "INSERTION" -> "I"
      [] op = "DELETION" -> "D"
      [] op = "CLIPPED" -> "S"
      [] op = "NODE_INSERTION" -> "G"

\* std::to_string on an unsigned number
RECURSIVE to_string(_)
to_string(n) ==
    IF n < 10 THEN <<DigitChars[n + 1]>>
    ELSE to_string(n \div 10) \o <<DigitChars[(n % 10) + 1]>>

\* Cigar::to_string
RECURSIVE CigarToString(_)
CigarToString(cigar) ==
    IF cigar = <<>> THEN <<>>
    ELSE to_string(Head(cigar)[2]) \o <<opt_to_char(Head(cigar)[1])>> \o CigarToString(Tail(cigar))

\* std::stol on a string of digits, which is not empty
RECURSIVE stol(_)
stol(digits) ==
    IF Len(digits) = 1 THEN CHOOSE d \in 0..9 : DigitChars[d + 1] = digits[1]
    ELSE 10 * stol(SubSeq(digits, 1, Len(digits) - 1))
            + (CHOOSE d \in 0..9 : DigitChars[d + 1] = digits[Len(digits)])

\* what a constructor call gives that std::stol has left with
\* std::invalid_argument: no Cigar is constructed
InvalidArgument == << <<"std::invalid_argument", 0>> >>

\* Cigar::Cigar(std::string_view) on a string of digits and operator
\* characters: the loop over the characters; op_count is cleared after every
\* operator but 'G'. std::stol throws on an op_count without a digit, that is
\* when an operator starts the string or follows an operator other than 'G'
RECURSIVE CigarFromString(_, _, _)
CigarFromString(cigar_str, op_count, cigar) ==
    IF cigar_str = <<>> THEN cigar
    ELSE LET c == Head(cigar_str)
         IN CASE c \in {"=", "X", "I", "D", "S"} ->
                    IF op_count = <<>> THEN InvalidArgument
                    ELSE CigarFromString(Tail(cigar_str), <<>>,
                            Append(cigar, <<CHOOSE op \in Operators : opt_to_char(op) = c,
                                            stol(op_count)>>))
              [] c = "G" ->
                    IF op_count = <<>> THEN InvalidArgument
                    ELSE CigarFromString(Tail(cigar_str), op_count,
                            Append(cigar, <<"NODE_INSERTION", stol(op_count)>>))
              [] OTHER -> CigarFromString(Tail(cigar_str), Append(op_count, c), cigar)

\* the lengths of the entries: one and two digits
RoundTripLengths == {0, 1, 2, 10, 12}
RoundTripChoices == SeqsUpTo(Operators \X RoundTripLengths, MaxCigarOps)

CigarRoundTripInit ==
    /\ cigar_ \in RoundTripChoices
    /\ cg_other = <<>>
    /\ cg_appended = <<>>
    /\ cg_call = NoCall
    /\ cg_result = <<>>
    /\ RdIdle /\ BrwtIdle /\ ChainerIdle /\ AbIdle /\ PiIdle /\ DpIdle /\ MoreIdle

\* Cigar(cigar.to_string())
CgRoundTrip ==
    /\ cg_call = NoCall
    /\ LET cigar_str == CigarToString(cigar_)
       IN /\ cg_call' = [op |-> "to_string", cigar_str |-> cigar_str]
          /\ cg_result' = CigarFromString(cigar_str, <<>>, <<>>)
    /\ UNCHANGED <<cigar_, cg_other, cg_appended>>
    /\ CgFrame

\* the strings a Cigar is constructed from directly: well-formed ones, one
\* with an entry after a 'G', and strings in which an operator has no count
CigarStrings ==
    { <<>>, <<"3", "=">>, <<"1", "2", "=", "1", "X">>, <<"2", "G", "1", "S">>,
      <<"1", "=", "=">>, <<"=">>, <<"0", "=", "S">>, <<"2", "G", "G">>, <<"1", "I", "G">> }

\* Cigar(cigar_str) for a new object
CgConstruct ==
    /\ cg_call = NoCall
    /\ cigar_ = <<>>
    /\ \E cigar_str \in CigarStrings :
          /\ cg_call' = [op |-> "construct", cigar_str |-> cigar_str]
          /\ cg_result' = CigarFromString(cigar_str, <<>>, <<>>)
    /\ UNCHANGED <<cigar_, cg_other, cg_appended>>
    /\ CgFrame

CigarRoundTripNext == CgRoundTrip \/ CgConstruct
SpecCigarRoundTrip == CigarRoundTripInit /\ [][CigarRoundTripNext]_vars

\* the constructor was left by the exception of std::stol
ConstructorThrown ==
    /\ cg_call.op = "construct"
    /\ cg_result = InvalidArgument

\* every entry has a positive length and no two neighbours share an operator
CigarIsCanonical(cigar) ==
    /\ \A i \in 1..Len(cigar) : cigar[i][2] > 0
    /\ \A i \in 1..(Len(cigar) - 1) : cigar[i][1] # cigar[i + 1][1]

\* C28: a CIGAR with positive lengths and no two equal neighbours, over all
\* operators, is what the constructor makes of its to_string.
CigarRoundTrip ==
    (cg_call.op = "to_string" /\ CigarIsCanonical(cigar_)) => cg_result = cigar_

\* what does hold: the round trip of a CIGAR whose NODE_INSERTION entries, if
\* any, are the last entry
CigarRoundTripWithoutInnerG ==
    (/\ cg_call.op = "to_string"
     /\ CigarIsCanonical(cigar_)
     /\ \A i \in 1..(Len(cigar_) - 1) : cigar_[i][1] # "NODE_INSERTION")
        => cg_result = cigar_

\* the entry after a NODE_INSERTION came back with the digits of both lengths
LengthAfterGKeepsDigits ==
    /\ cg_call.op = "to_string"
    /\ CigarIsCanonical(cigar_)
    /\ \E i \in 1..(Len(cigar_) - 1) :
        /\ cigar_[i][1] = "NODE_INSERTION"
        /\ Len(cg_result) = Len(cigar_)
        /\ cg_result[i] = cigar_[i]
        /\ to_string(cg_result[i + 1][2]) = to_string(cigar_[i][2]) \o to_string(cigar_[i + 1][2])

(***************************************************************************)
(* IntRowDiff::load and TupleRowDiff::load on a given stream               *)
(***************************************************************************)
\* the first four bytes of a stream, and a stream that ends after two bytes
LoadVersions == {"v2.0", "v1.0", "v2.1", "0000"}
ShortStreams == {<<>>, <<[t |-> "short", v |-> "v2"]>>}

LoadAnchors == {<<TRUE>>, <<FALSE, TRUE>>, <<TRUE, FALSE, TRUE>>}
LoadForkSuccs == {<<>>, <<TRUE>>}
LoadMatrices == {<<>>, << <<>> >>, << << <<0, 1>> >>, <<>> >>}

\* what follows the four bytes: anchor, fork_succ and the base matrix, the
\* stream cut after any of them, or bytes that are no bit vector
LoadPayloads ==
    LET whole == {<<[t |-> "bit_vector", v |-> a], [t |-> "bit_vector", v |-> f],
                    [t |-> "matrix", v |-> d]>> :
                        a \in LoadAnchors, f \in LoadForkSuccs, d \in LoadMatrices}
    IN UNION {{SubSeq(p, 1, n) : n \in 0..3} : p \in whole}
        \cup {<<[t |-> "garbage", v |-> <<>>]>>}

RdLoadStreams ==
    ShortStreams
        \cup {<<[t |-> "version", v |-> version]>> \o p : version \in LoadVersions, p \in LoadPayloads}

\* a default-constructed IntRowDiff or TupleRowDiff
RdLoadInit ==
    /\ rd_kind \in {"int", "tuple"}
    /\ rd_logical = <<>>
    /\ anchor_ = <<>>
    /\ rd_succ = <<>>
    /\ diffs_ = <<>>
    /\ rd_call = NoCall
    /\ rd_result = <<>>
    /\ BrwtIdle
    /\ ChainerIdle
    /\ OthersIdle

\* matrix.load(in)
RdLoadStream ==
    /\ rd_call = NoCall
    /\ \E in \in RdLoadStreams :
        LET l == RdLoad(in)
        IN /\ anchor_' = l.anchor_
           /\ diffs_' = l.diffs_
           /\ rd_result' = l.ok
           /\ rd_call' = [op |-> "load", in |-> in, fork_succ_ |-> l.fork_succ_]
    /\ UNCHANGED <<rd_kind, rd_logical, rd_succ, brwtVars, chainVars, otherVars>>

\* the files load_anchor and load_fork_succ are given: no such file, or a file
\* that holds one serialized bit vector
NoFile == <<[t |-> "missing", v |-> <<>>]>>
AnchorFiles == {NoFile} \cup {<<[t |-> "bit_vector", v |-> a]>> : a \in LoadAnchors}
ForkSuccFiles == {NoFile} \cup {<<[t |-> "bit_vector", v |-> f]>> : f \in LoadForkSuccs}

\* fork_succ_ as the calls so far have left it
LoadedForkSucc == IF rd_call = NoCall \/ rd_call.op = "exit" THEN <<>> ELSE rd_call.fork_succ_

\* matrix.load_anchor(filename): exit(1) without the file, else anchor_.load(in)
RdLoadAnchor ==
    /\ rd_kind # "none"
    /\ rd_call = NoCall \/ rd_call.op # "exit"
    /\ \E in \in AnchorFiles :
        IF in = NoFile
        THEN /\ rd_call' = [op |-> "exit", in |-> in]
             /\ UNCHANGED anchor_
        ELSE /\ rd_call' = [op |-> "load_anchor", in |-> in, fork_succ_ |-> LoadedForkSucc]
             /\ anchor_' = in[1].v
    /\ UNCHANGED <<rd_kind, rd_logical, rd_succ, diffs_, rd_result, brwtVars, chainVars, otherVars>>

\* matrix.load_fork_succ(filename): exit(1) without the file, else fork_succ_.load(in)
RdLoadForkSucc ==
    /\ rd_kind # "none"
    /\ rd_call = NoCall \/ rd_call.op # "exit"
    /\ \E in \in ForkSuccFiles :
        IF in = NoFile
        THEN rd_call' = [op |-> "exit", in |-> in]
        ELSE rd_call' = [op |-> "load_fork_succ", in |-> in, fork_succ_ |-> in[1].v]
    /\ UNCHANGED <<rd_kind, rd_logical, anchor_, rd_succ, diffs_, rd_result, brwtVars, chainVars,
                   otherVars>>

RdLoadNext == RdLoadStream \/ RdLoadAnchor \/ RdLoadForkSucc
SpecRdLoad == RdLoadInit /\ [][RdLoadNext]_vars

\* the stream starts with the four bytes "v2.0"
HasVersionPrefix(in) == in # <<>> /\ in[1].t = "version" /\ in[1].v = "v2.0"

\* C29: load returns false and reads neither anchor nor fork_succ nor the base
\* matrix when the stream does not start with "v2.0" or ends before four bytes.
LoadRejectsOtherVersions ==
    (rd_call.op = "load" /\ ~HasVersionPrefix(rd_call.in)) =>
        /\ rd_result = FALSE
        /\ anchor_ = <<>>
        /\ rd_call.fork_succ_ = <<>>
        /\ diffs_ = <<>>

\* what does hold: a stream that ends before four bytes is rejected with
\* nothing loaded, and otherwise the result depends on what follows the four
\* bytes only
LoadIgnoresVersion ==
    rd_call.op = "load" =>
        /\ rd_call.in \in ShortStreams => (rd_result = FALSE /\ anchor_ = <<>> /\ diffs_ = <<>>)
        /\ rd_call.in \notin ShortStreams =>
                /\ rd_result = RdLoad(<<[t |-> "version", v |-> "v2.0"]>> \o Tail(rd_call.in)).ok
                /\ anchor_ = RdLoad(<<[t |-> "version", v |-> "v2.0"]>> \o Tail(rd_call.in)).anchor_

\* a stream with another version was loaded whole
OtherVersionLoaded ==
    /\ rd_call.op = "load"
    /\ rd_call.in # <<>>
    /\ rd_call.in[1].t = "version"
    /\ rd_call.in[1].v # "v2.0"
    /\ rd_result = TRUE
    /\ anchor_ # <<>>
    /\ diffs_ # <<>>

(***************************************************************************)
(* Unitigs: the neighbours of a unitig                                     *)
(*                                                                         *)
(* graph_ is a graph without a CanonicalDBG wrapper (the constructor that   *)
(* builds the index refuses the CANONICAL mode and leaves canonical_       *)
(* null): nodes 1..n, no dummy k-mers.                                     *)
(* The constructor numbers the unitigs of more than one node in the order  *)
(* call_unitigs delivers them, gives the i-th node of a unitig the         *)
(* coordinate start + i, and marks the start in indicator_; a unitig of a  *)
(* single node keeps the id of its node.                                   *)
(***************************************************************************)
MaxNodes == 3

adjacent_outgoing_nodes(g, node) == SortedSeqOf({ v \in 1..g.n : <<node, v>> \in g.edges })
adjacent_incoming_nodes(g, node) == SortedSeqOf({ v \in 1..g.n : <<v, node>> \in g.edges })

\* the edge u -> v lies inside a unitig: u has no other way out, v no other way in
InsideUnitig(g, u, v) ==
    /\ <<u, v>> \in g.edges
    /\ adjacent_outgoing_nodes(g, u) = <<v>>
    /\ adjacent_incoming_nodes(g, v) = <<u>>

\* the unitig that begins with path, extended to its end
RECURSIVE UnitigFrom(_, _)
UnitigFrom(g, path) ==
    LET last == path[Len(path)]
        next == { v \in 1..g.n : InsideUnitig(g, last, v) /\ \A i \in 1..Len(path) : path[i] # v }
    IN IF next = {} THEN path
       ELSE UnitigFrom(g, Append(path, CHOOSE v \in next : TRUE))

\* call_unitigs: the maximal non-branching paths, in the order of their first nodes
UnitigStarts(g) == { v \in 1..g.n : \A u \in 1..g.n : ~InsideUnitig(g, u, v) }
call_unitigs(g) ==
    LET starts == SortedSeqOf(UnitigStarts(g))
    IN [i \in 1..Len(starts) |-> UnitigFrom(g, <<starts[i]>>)]

\* the paths the constructor keeps: those of more than one node
LongUnitigs(g) == SelectSeq(call_unitigs(g), LAMBDA path : Len(path) # 1)

\* start_coord of the j-th kept path: the sizes of the paths before it
RECURSIVE StartCoord(_, _)
StartCoord(paths, j) ==
    IF j = 1 THEN 0 ELSE StartCoord(paths, j - 1) + Len(paths[j - 1])

\* the graphs: every node lies on a unitig that has a first node
UtGraphs ==
    { g \in [n : 1..MaxNodes,
             edges : SUBSET { e \in (1..MaxNodes) \X (1..MaxNodes) : e[1] # e[2] }] :
        /\ \A e \in g.edges : e[1] <= g.n /\ e[2] <= g.n
        /\ \A v \in 1..g.n : \E i \in 1..Len(call_unitigs(g)) :
                \E k \in 1..Len(call_unitigs(g)[i]) : call_unitigs(g)[i][k] = v }

\* the constructor's tables
BuildBoundaries(paths) ==
    Built([c \in 1..(2 * Len(paths)) |->
              IF c % 2 = 1 THEN paths[(c + 1) \div 2][1]
              ELSE paths[c \div 2][Len(paths[c \div 2])]])
\* one bit per coordinate, set where a path starts
BuildIndicator(paths) ==
    Built([c \in 1..(IF paths = <<>> THEN 0
                     ELSE StartCoord(paths, Len(paths)) + Len(paths[Len(paths)])) |->
              \E j \in 1..Len(paths) : StartCoord(paths, j) = c - 1])
BuildCoords(g, paths) ==
    Built([v \in 1..g.n |->
              IF \E j \in 1..Len(paths) : \E i \in 1..Len(paths[j]) : paths[j][i] = v
              THEN LET j == CHOOSE jj \in 1..Len(paths) :
                                \E i \in 1..Len(paths[jj]) : paths[jj][i] = v
                       i == CHOOSE ii \in 1..Len(paths[j]) : paths[j][ii] = v
                   IN <<StartCoord(paths, j) + i - 1>>
              ELSE <<>>])

get_unitig_id_offset == ut_graph.n + 1
get_rc_unitig_offset == Len(boundaries_) \div 2

\* get_unitig: the first and the last node of a unitig
get_unitig(unitig_id) ==
    IF unitig_id <= get_unitig_id_offset THEN <<unitig_id, unitig_id>>
    ELSE LET id == unitig_id - get_unitig_id_offset
         IN <<boundaries_[(id - 1) * 2 + 1], boundaries_[(id - 1) * 2 + 2]>>

\* get_unitig_ids: a node with a coordinate gets the rank of the coordinate plus
\* the offset, a node without one is its own unitig
get_unitig_ids(nodes) ==
    [i \in 1..Len(nodes) |->
        LET coordinates == unitigs_[nodes[i]]
        IN IF Len(coordinates) # 0
           THEN rank1(indicator_, coordinates[1]) + get_unitig_id_offset
           ELSE nodes[i]]

adjacent_outgoing_unitigs(unitig_id) ==
    LET nexts == adjacent_outgoing_nodes(ut_graph, get_unitig(unitig_id)[2])
    IN Built([i \in 1..Len(nexts) |-> get_unitig_ids(<<nexts[i]>>)[1]])

\* the walk starts from .second, the last node of the unitig
adjacent_incoming_unitigs(unitig_id) ==
    LET prevs == adjacent_incoming_nodes(ut_graph, get_unitig(unitig_id)[2])
    IN Built([i \in 1..Len(prevs) |-> get_unitig_ids(<<prevs[i]>>)[1]])

\* the ids of the unitigs: the nodes outside every kept path, and the kept paths
UnitigIds ==
    { v \in 1..ut_graph.n : unitigs_[v] = <<>> }
        \cup { get_unitig_id_offset + j : j \in 1..get_rc_unitig_offset }

UtFrame == UNCHANGED <<rdVars, brwtVars, chainVars, abVars, piVars, cgVars, dpVars, sbVars,
                       cfVars>>

\* Unitigs::serialize: unitigs_, valid_nodes_ (every node is valid here),
\* boundaries_, indicator_
UtSerialize(g, coords, boundaries, indicator) ==
    << [t |-> "coords", v |-> coords],
       [t |-> "bit_vector", v |-> Built([v \in 1..g.n |-> TRUE])],
       [t |-> "int_vector", v |-> boundaries],
       [t |-> "bit_vector", v |-> indicator] >>

\* the files load is given: no file, the file serialize wrote for an index of
\* the graph, or that file cut before the mask or before the indicator
UtFiles(g) ==
    LET whole == UtSerialize(g, BuildCoords(g, LongUnitigs(g)),
                             BuildBoundaries(LongUnitigs(g)), BuildIndicator(LongUnitigs(g)))
    IN {NoFile, <<>>, SubSeq(whole, 1, 1), SubSeq(whole, 1, 3), whole}

\* Unitigs::load: the members are read in the order of the file, each replaces
\* the object's member, and the first that fails ends the load with false; a
\* boundary array of odd length or one that does not have two cells for each
\* set bit of the indicator gives false after the members were replaced
UtLoadFile(in, coords, boundaries, indicator) ==
    LET ok1 == in # NoFile /\ NextIs(in, "coords")
        ok2 == ok1 /\ NextIs(Tail(in), "bit_vector")
        ok3 == ok2 /\ NextIs(Tail(Tail(in)), "int_vector")
        b == IF ok3 THEN in[3].v ELSE boundaries
        ok4 == ok3 /\ Len(b) % 2 = 0 /\ NextIs(Tail(Tail(Tail(in))), "bit_vector")
        ind == IF ok4 THEN in[4].v ELSE indicator
    IN [ok |-> ok4 /\ num_set_bits(ind) * 2 = Len(b),
        unitigs_ |-> IF ok1 THEN in[1].v ELSE coords,
        boundaries_ |-> b,
        indicator_ |-> ind]

\* the object after Unitigs(graph_fname, ...), which builds the tables, or after
\* Unitigs(graph), which leaves them to load
UtInit ==
    /\ \E g \in UtGraphs, built \in BOOLEAN :
        /\ ut_graph = g
        /\ boundaries_ = IF built THEN BuildBoundaries(LongUnitigs(g)) ELSE <<>>
        /\ indicator_ = IF built THEN BuildIndicator(LongUnitigs(g)) ELSE <<>>
        /\ unitigs_ = IF built THEN BuildCoords(g, LongUnitigs(g)) ELSE <<>>
    /\ ut_call = <<>>
    /\ ut_result = <<>>
    /\ RdIdle /\ BrwtIdle /\ ChainerIdle /\ AbIdle /\ PiIdle /\ CgIdle /\ DpIdle /\ SbIdle
    /\ CfIdle

\* the tables are there: built, or loaded by a load that did not fail
UtUsable ==
    /\ unitigs_ # <<>>
    /\ ut_call # <<>> => (ut_call.op = "load" => ut_call.ok)

\* load(filename_base)
UtLoad ==
    /\ ut_graph # <<>>
    /\ \E in \in UtFiles(ut_graph) :
        LET l == UtLoadFile(in, unitigs_, boundaries_, indicator_)
        IN /\ unitigs_' = l.unitigs_
           /\ boundaries_' = l.boundaries_
           /\ indicator_' = l.indicator_
           /\ ut_call' = [op |-> "load", in |-> in, ok |-> l.ok]
           /\ ut_result' = <<>>
    /\ UNCHANGED ut_graph
    /\ UtFrame

UtOutgoing ==
    /\ UtUsable
    /\ \E u \in UnitigIds :
        /\ ut_call' = [op |-> "adjacent_outgoing_unitigs", unitig_id |-> u]
        /\ ut_result' = adjacent_outgoing_unitigs(u)
    /\ UNCHANGED <<ut_graph, boundaries_, indicator_, unitigs_>>
    /\ UtFrame

UtIncoming ==
    /\ UtUsable
    /\ \E u \in UnitigIds :
        /\ ut_call' = [op |-> "adjacent_incoming_unitigs", unitig_id |-> u]
        /\ ut_result' = adjacent_incoming_unitigs(u)
    /\ UNCHANGED <<ut_graph, boundaries_, indicator_, unitigs_>>
    /\ UtFrame

UtNext == UtLoad \/ UtOutgoing \/ UtIncoming

SpecUnitigs == UtInit /\ [][UtNext]_vars

\* the nodes of a unitig, from the paths of the graph
UnitigNodes(unitig_id) ==
    IF unitig_id <= get_unitig_id_offset THEN <<unitig_id>>
    ELSE LongUnitigs(ut_graph)[unitig_id - get_unitig_id_offset]

\* the unitigs that contain one of the nodes
UnitigsContaining(nodes) ==
    { u \in UnitigIds : \E i \in 1..Len(UnitigNodes(u)) : UnitigNodes(u)[i] \in nodes }

ResultSet == { ut_result[i] : i \in 1..Len(ut_result) }
FirstNode(u) == UnitigNodes(u)[1]
LastNode(u) == UnitigNodes(u)[Len(UnitigNodes(u))]

\* adjacent_outgoing_unitigs(u) reports exactly the unitigs that contain a
\* successor of the last node of u
OutgoingIsSuccessorsOfLast ==
    (ut_call # <<>> /\ ut_call.op = "adjacent_outgoing_unitigs") =>
        ResultSet = UnitigsContaining(
                        SeqRange(adjacent_outgoing_nodes(ut_graph, LastNode(ut_call.unitig_id))))

\* C30: adjacent_incoming_unitigs(u) reports exactly the unitigs that contain a
\* predecessor of the first node of u, as adjacent_outgoing_unitigs(u) reports
\* exactly the unitigs that contain a successor of the last node of u
AdjacentUnitigsMirror ==
    /\ OutgoingIsSuccessorsOfLast
    /\ (ut_call # <<>> /\ ut_call.op = "adjacent_incoming_unitigs") =>
            ResultSet = UnitigsContaining(
                        SeqRange(adjacent_incoming_nodes(ut_graph, FirstNode(ut_call.unitig_id))))

\* what the code reports: the unitigs that contain a predecessor of the last node,
\* which for a unitig of more than one node is the unitig itself
IncomingIsPredecessorsOfLast ==
    (ut_call # <<>> /\ ut_call.op = "adjacent_incoming_unitigs") =>
        /\ ResultSet = UnitigsContaining(
                        SeqRange(adjacent_incoming_nodes(ut_graph, LastNode(ut_call.unitig_id))))
        /\ ut_call.unitig_id > get_unitig_id_offset => ut_result = <<ut_call.unitig_id>>

\* a unitig of two nodes whose first node has one predecessor, a single node, is
\* reported as its own and only predecessor
UnitigReportedAsOwnPredecessor ==
    /\ ut_call # <<>>
    /\ ut_call.op = "adjacent_incoming_unitigs"
    /\ ut_call.unitig_id > get_unitig_id_offset
    /\ ut_result = <<ut_call.unitig_id>>
    /\ UnitigsContaining(SeqRange(adjacent_incoming_nodes(ut_graph, FirstNode(ut_call.unitig_id))))
            \cap (1..ut_graph.n) # {}

====
